---- MODULE Spec2Model ----
(***************************************************************************)
(* Model of the record normalisation pipeline of the development digest:  *)
(* the unit count extractor (extract_unit_count_from_text), the           *)
(* deduplication, enrichment and filtering done by get_permits and        *)
(* get_appeals, and the geographic matcher (GeographicMatcher).           *)
(*                                                                         *)
(* Python values are records [k, n, s]: k is the type tag, n the numeric  *)
(* payload and s the string payload, a tuple of one-character strings, so *)
(* that lower(), startswith(), "in", string comparison and the regular    *)
(* expressions are computed character by character as Python does.        *)
(***************************************************************************)
EXTENDS Integers, Sequences, FiniteSets, TLC

\* ------------------------------------------------------------ Python values

PyNone == [k |-> "none", n |-> 0, s |-> <<>>]
\* a key that the mapping does not hold (dict.get falls back to its default)
Absent == [k |-> "absent", n |-> 0, s |-> <<>>]
PyStr(chars) == [k |-> "str", n |-> 0, s |-> chars]
PyInt(i) == [k |-> "int", n |-> i, s |-> <<>>]
\* a float with a whole value i.0, as a numeric column is delivered by JSON
PyFloat(i) == [k |-> "float", n |-> i, s |-> <<>>]
\* an exception propagating out of an expression
Raise(e) == [k |-> e, n |-> 0, s |-> <<>>]
Exceptions == {"TypeError", "AttributeError", "ValueError"}
IsRaise(v) == v.k \in Exceptions

\* bool(v)
Truthy(v) ==
    CASE v.k = "str" -> v.s # <<>>
      [] v.k \in {"int", "float"} -> v.n # 0
      [] OTHER -> FALSE

\* mapping.get(key, default)
Get(mapping, key, default) ==
    IF mapping[key].k = "absent" THEN default ELSE mapping[key]

\* ------------------------------------------------------------ characters

Uppers == <<"A", "B", "C", "D", "E", "F", "G", "H", "I", "J", "K", "L", "M",
            "N", "O", "P", "Q", "R", "S", "T", "U", "V", "W", "X", "Y", "Z">>
Lowers == <<"a", "b", "c", "d", "e", "f", "g", "h", "i", "j", "k", "l", "m",
            "n", "o", "p", "q", "r", "s", "t", "u", "v", "w", "x", "y", "z">>
Digits == <<"0", "1", "2", "3", "4", "5", "6", "7", "8", "9">>
\* the characters of the model in code point order
Ascii == <<"\t", "\n", " ", "(", ")", "-", ".",
           "0", "1", "2", "3", "4", "5", "6", "7", "8", "9", ":",
           "A", "B", "C", "D", "E", "F", "G", "H", "I", "J", "K", "L", "M",
           "N", "O", "P", "Q", "R", "S", "T", "U", "V", "W", "X", "Y", "Z", "_",
           "a", "b", "c", "d", "e", "f", "g", "h", "i", "j", "k", "l", "m",
           "n", "o", "p", "q", "r", "s", "t", "u", "v", "w", "x", "y", "z">>

Range(f) == {f[i] : i \in DOMAIN f}
SetMin(S) == CHOOSE x \in S : \A y \in S : x <= y
SetMax(S) == CHOOSE x \in S : \A y \in S : x >= y
IndexOf(f, c) == CHOOSE i \in DOMAIN f : f[i] = c

Ord(c) == IndexOf(Ascii, c)
IsDigit(c) == c \in Range(Digits)
DigitVal(c) == IndexOf(Digits, c) - 1
\* \w
IsWord(c) == c \in Range(Uppers) \cup Range(Lowers) \cup Range(Digits) \cup {"_"}
\* \s
IsSpace(c) == c \in {" ", "\t", "\n"}
\* [\s-]
IsSep(c) == IsSpace(c) \/ c = "-"

LowerChar(c) == IF c \in Range(Uppers) THEN Lowers[IndexOf(Uppers, c)] ELSE c
\* str.lower()
Lower(t) == [i \in 1..Len(t) |-> LowerChar(t[i])]

\* the literal lit occurs in t at position p
AtLit(t, p, lit) ==
    /\ p >= 1
    /\ p + Len(lit) - 1 <= Len(t)
    /\ \A i \in 1..Len(lit) : t[p + i - 1] = lit[i]

\* sub in t
Contains(t, sub) == \E p \in 1..(Len(t) + 1) : AtLit(t, p, sub)
\* t.startswith(prefix)
StartsWith(t, prefix) == AtLit(t, 1, prefix)
\* t.isdigit()
IsDigitStr(t) == t # <<>> /\ \A i \in 1..Len(t) : IsDigit(t[i])

\* a > b on two str: lexicographic by code point, a proper prefix is smaller
StrGT(a, b) ==
    LET m == IF Len(a) < Len(b) THEN Len(a) ELSE Len(b)
        diff == {i \in 1..m : a[i] # b[i]}
    IN  IF diff = {} THEN Len(a) > Len(b)
        ELSE Ord(a[SetMin(diff)]) > Ord(b[SetMin(diff)])

\* the number written by the digits t[p .. e-1]
RECURSIVE DigitsValue(_, _, _)
DigitsValue(t, p, e) ==
    IF e <= p THEN 0 ELSE DigitsValue(t, p, e - 1) * 10 + DigitVal(t[e - 1])

\* int(v)
PyIntOf(v) ==
    CASE v.k \in {"int", "float"} -> PyInt(v.n)
      [] v.k = "str" -> IF IsDigitStr(v.s)
                        THEN PyInt(DigitsValue(v.s, 1, Len(v.s) + 1))
                        ELSE Raise("ValueError")
      [] OTHER -> Raise("TypeError")

\* x > y: defined on two numbers and on two str, a TypeError otherwise
PyGT(x, y) ==
    CASE x.k = "str" /\ y.k = "str" -> [ok |-> TRUE, gt |-> StrGT(x.s, y.s)]
      [] x.k \in {"int", "float"} /\ y.k \in {"int", "float"} ->
             [ok |-> TRUE, gt |-> x.n > y.n]
      [] OTHER -> [ok |-> FALSE, gt |-> FALSE]

\* ------------------------------------------------ extract_unit_count_from_text

LitUnit == <<"u", "n", "i", "t">>
LitDwelling == <<"d", "w", "e", "l", "l", "i", "n", "g">>
LitFamily == <<"f", "a", "m", "i", "l", "y">>
LitHousehold == <<"h", "o", "u", "s", "e", "h", "o", "l", "d">>

\* \d+ from p, greedy: the first position after the run of digits
DigitRunEnd(t, p) ==
    LET stop == {j \in p..Len(t) : ~IsDigit(t[j])}
    IN  IF stop = {} THEN Len(t) + 1 ELSE SetMin(stop)

\* [\s-]* from p, greedy: the first position after the run of separators
SepRunEnd(t, p) ==
    LET stop == {j \in p..Len(t) : ~IsSep(t[j])}
    IN  IF stop = {} THEN Len(t) + 1 ELSE SetMin(stop)

\* a \b between t[p-1] and t[p], t[p-1] being a word character
WordEndsAt(t, p) == p > Len(t) \/ ~IsWord(t[p])

\* an optional character ch at p, greedy: the position after it
SkipChar(t, p, ch) == IF p >= 1 /\ p <= Len(t) /\ t[p] = ch THEN p + 1 ELSE p

\* \(?(\d+)\)?  the digits being t[a .. b-1]: [ok, val, end]
NumberTo(t, a, b) ==
    [ok |-> b > a, val |-> DigitsValue(t, a, b), end |-> SkipChar(t, b, ")")]
NumberFrom(t, a) == NumberTo(t, a, DigitRunEnd(t, a))
NumberAt(t, p) == NumberFrom(t, SkipChar(t, p, "("))

\* (unit|dwelling) at d: the position after it, 0 when neither is there
UnitOrDwellingEnd(t, d) ==
    IF AtLit(t, d, LitUnit) THEN d + Len(LitUnit)
    ELSE IF AtLit(t, d, LitDwelling) THEN d + Len(LitDwelling)
    ELSE 0

\* (?:family|household) at d
FamilyOrHouseholdEnd(t, d) ==
    IF AtLit(t, d, LitFamily) THEN d + Len(LitFamily)
    ELSE IF AtLit(t, d, LitHousehold) THEN d + Len(LitHousehold)
    ELSE 0

\* r'\(?(\d+)\)?[\s-]+(unit|dwelling)s?\b' matched at p: [ok, val, end].
\* num is the number, d the end of the separators, e the end of the keyword
Match1Word(t, num, d, e) ==
    [ok |-> num.ok /\ d > num.end /\ e # 0 /\ WordEndsAt(t, SkipChar(t, e, "s")),
     val |-> num.val, end |-> SkipChar(t, e, "s")]
Match1Sep(t, num, d) == Match1Word(t, num, d, UnitOrDwellingEnd(t, d))
Match1Num(t, num) == Match1Sep(t, num, SepRunEnd(t, num.end))
Match1(t, p) == Match1Num(t, NumberAt(t, p))

\* r'\(?(\d+)\)?[\s-]*(?:family|household)' matched at p: [ok, val, end]
Match2Word(t, num, e) == [ok |-> num.ok /\ e # 0, val |-> num.val, end |-> e]
Match2Num(t, num) ==
    Match2Word(t, num, FamilyOrHouseholdEnd(t, SepRunEnd(t, num.end)))
Match2(t, p) == Match2Num(t, NumberAt(t, p))

\* re.findall(pattern 1): the group of every match, leftmost first, the
\* search resuming where the previous match ended
RECURSIVE FindAll1(_, _)
FindAll1Next(t, p, m) ==
    IF m.ok THEN <<m.val>> \o FindAll1(t, m.end) ELSE FindAll1(t, p + 1)
FindAll1(t, p) ==
    IF p > Len(t) THEN <<>> ELSE FindAll1Next(t, p, Match1(t, p))

\* re.findall(pattern 2)
RECURSIVE FindAll2(_, _)
FindAll2Next(t, p, m) ==
    IF m.ok THEN <<m.val>> \o FindAll2(t, m.end) ELSE FindAll2(t, p + 1)
FindAll2(t, p) ==
    IF p > Len(t) THEN <<>> ELSE FindAll2Next(t, p, Match2(t, p))

pattern1(text_lower) == FindAll1(text_lower, 1)
pattern2(text_lower) == FindAll2(text_lower, 1)

family_words == <<
       <<<<"s", "i", "n", "g", "l", "e">>, 1>>,
       <<<<"o", "n", "e">>, 1>>,
       <<<<"t", "w", "o">>, 2>>,
       <<<<"d", "o", "u", "b", "l", "e">>, 2>>,
       <<<<"t", "h", "r", "e", "e">>, 3>>,
       <<<<"t", "r", "i", "p", "l", "e">>, 3>>,
       <<<<"f", "o", "u", "r">>, 4>>,
       <<<<"q", "u", "a", "d">>, 4>>,
       <<<<"f", "i", "v", "e">>, 5>>,
       <<<<"s", "i", "x">>, 6>>,
       <<<<"s", "e", "v", "e", "n">>, 7>>,
       <<<<"e", "i", "g", "h", "t">>, 8>>,
       <<<<"n", "i", "n", "e">>, 9>>,
       <<<<"t", "e", "n">>, 10>>,
       <<<<"e", "l", "e", "v", "e", "n">>, 11>>,
       <<<<"t", "w", "e", "l", "v", "e">>, 12>>,
       <<<<"t", "h", "i", "r", "t", "e", "e", "n">>, 13>>,
       <<<<"f", "o", "u", "r", "t", "e", "e", "n">>, 14>>,
       <<<<"f", "i", "f", "t", "e", "e", "n">>, 15>>,
       <<<<"s", "i", "x", "t", "e", "e", "n">>, 16>>,
       <<<<"s", "e", "v", "e", "n", "t", "e", "e", "n">>, 17>>,
       <<<<"e", "i", "g", "h", "t", "e", "e", "n">>, 18>>,
       <<<<"n", "i", "n", "e", "t", "e", "e", "n">>, 19>>,
       <<<<"t", "w", "e", "n", "t", "y">>, 20>>
    >>

\* re.search(rf'\b{word}\b.*?(family|dwelling|unit)', text_lower): the word as
\* a whole word, then any characters but a line break, then a keyword
Search3(t, word) ==
    \E p \in 1..Len(t) :
        /\ AtLit(t, p, word)
        /\ (p = 1 \/ ~IsWord(t[p - 1]))
        /\ WordEndsAt(t, p + Len(word))
        /\ \E q \in (p + Len(word))..Len(t) :
              /\ AtLit(t, q, LitFamily) \/ AtLit(t, q, LitDwelling)
                    \/ AtLit(t, q, LitUnit)
              /\ \A j \in (p + Len(word))..(q - 1) : t[j] # "\n"

\* the loop over family_words.items(), in the dict's order
RECURSIVE pattern3(_, _)
pattern3(text_lower, i) ==
    IF i > Len(family_words) THEN <<>>
    ELSE (IF Search3(text_lower, family_words[i][1])
          THEN <<family_words[i][2]>> ELSE <<>>)
         \o pattern3(text_lower, i + 1)

\* max(matches) of a non-empty list
\* (mutant of PyMaxOf: the smaller of the two)
PyMinOf(first, rest) == IF first <= rest THEN first ELSE rest

PyMaxOf(first, rest) == IF first >= rest THEN first ELSE rest
RECURSIVE PyMax(_)
PyMax(matches) ==
    IF Len(matches) = 1 THEN matches[1]
    ELSE PyMaxOf(matches[1], PyMax(Tail(matches)))

\* max(matches) if matches else None
MaxOrNone(matches) == IF matches # <<>> THEN PyInt(PyMax(matches)) ELSE PyNone

\* the three patterns on the lower-cased text, their finds in one list
Matches(text_lower) ==
    pattern1(text_lower) \o pattern2(text_lower) \o pattern3(text_lower, 1)

\* (mutant of extract_unit_count_from_text: without the test of lines 288-289)
extract_unguarded(text) ==
    IF text.k # "str" THEN Raise("AttributeError")
    ELSE MaxOrNone(Matches(Lower(text.s)))

extract_unit_count_from_text(text) ==
    IF ~Truthy(text) THEN PyNone
    ELSE IF text.k # "str" THEN Raise("AttributeError")
    ELSE MaxOrNone(Matches(Lower(text.s)))

\* ------------------------------------------- get_permits and get_appeals

LitNewConstruction ==
    <<"N", "e", "w", " ", "C", "o", "n", "s", "t", "r", "u", "c", "t", "i", "o", "n">>
LitChangeOfUse ==
    <<"C", "h", "a", "n", "g", "e", " ", "o", "f", " ", "U", "s", "e">>
LitResidential ==
    <<"r", "e", "s", "i", "d", "e", "n", "t", "i", "a", "l">>
LitMultiFamily ==
    <<"m", "u", "l", "t", "i", "-", "f", "a", "m", "i", "l", "y">>
LitZP == <<"Z", "P", "-">>
LitUnknown == <<"U", "n", "k", "n", "o", "w", "n">>
\* 'Unknown (Multi-Family)'
UnknownMultiFamily ==
    PyStr(<<"U", "n", "k", "n", "o", "w", "n", " ", "(", "M", "u", "l", "t", "i",
            "-", "F", "a", "m", "i", "l", "y", ")">>)

\* the key of the identifier and of the timestamp in the two streams
IdField(stream) == IF stream = "permits" THEN "permitnumber" ELSE "appealnumber"
DateField(stream) == IF stream = "permits" THEN "permitissuedate" ELSE "createddate"

\* New Construction is kept, and Change of Use with a residential scope
KeepsPermit(typeofwork, scope) ==
    \/ typeofwork = PyStr(LitNewConstruction)
    \/ /\ typeofwork = PyStr(LitChangeOfUse)
       /\ Truthy(scope)
       /\ Contains(Lower(scope.s), LitResidential)

\* the loop over all_permits that keeps those
RECURSIVE ChangeOfUseFilter(_)
ChangeOfUseFilter(rows) ==
    IF rows = <<>> THEN <<>>
    ELSE (IF KeepsPermit(Get(Head(rows), "typeofwork", PyStr(<<>>)),
                         Get(Head(rows), "approvedscopeofwork", PyStr(<<>>)))
          THEN <<Head(rows)>> ELSE <<>>)
         \o ChangeOfUseFilter(Tail(rows))

\* the position of key in the dict (0: not in it)
SeenIndex(seen, key) ==
    IF \E j \in 1..Len(seen) : seen[j].key = key
    THEN CHOOSE j \in 1..Len(seen) : seen[j].key = key
    ELSE 0

\* (mutants of IsNewer: the comparison reversed, and not strict)
IsOlder(new_date, existing_date) == PyGT(existing_date, new_date)
IsNewerOrEqual(new_date, existing_date) ==
    [ok |-> PyGT(new_date, existing_date).ok,
     gt |-> ~PyGT(existing_date, new_date).gt]

\* new_date > existing_date
IsNewer(new_date, existing_date) == PyGT(new_date, existing_date)

\* (mutant of KeepNewer: the identifier is deleted and entered again, so the
\* newer record goes to the end of the dict)
KeepNewerAtEnd(seen, j, record, newer) ==
    IF ~newer.ok THEN [exc |-> "TypeError", seen |-> seen]
    ELSE IF newer.gt
    THEN [exc |-> "",
          seen |-> Append(SubSeq(seen, 1, j - 1) \o SubSeq(seen, j + 1, Len(seen)),
                          [key |-> seen[j].key, value |-> record])]
    ELSE [exc |-> "", seen |-> seen]

\* the record of the dict is replaced when the new one is newer: [exc, seen]
KeepNewer(seen, j, record, newer) ==
    IF ~newer.ok THEN [exc |-> "TypeError", seen |-> seen]
    ELSE IF newer.gt THEN [exc |-> "", seen |-> [seen EXCEPT ![j].value = record]]
    ELSE [exc |-> "", seen |-> seen]

\* the identifier is at j in the dict, or is not in it (j = 0)
DedupAt(seen, j, permit_num, record, stream) ==
    IF j = 0
    THEN [exc |-> "", seen |-> Append(seen, [key |-> permit_num, value |-> record])]
    ELSE KeepNewer(seen, j, record,
                   IsNewer(Get(record, DateField(stream), PyStr(<<>>)),
                           Get(seen[j].value, DateField(stream), PyStr(<<>>))))

\* one iteration of the deduplication loop on record: [exc, seen]
DedupOne(seen, record, stream) ==
    IF ~Truthy(Get(record, IdField(stream), PyNone))
    THEN [exc |-> "", seen |-> seen]
    ELSE DedupAt(seen, SeenIndex(seen, Get(record, IdField(stream), PyNone)),
                 Get(record, IdField(stream), PyNone), record, stream)

\* list(seen.values())
Values(seen) == [j \in 1..Len(seen) |-> seen[j].value]

\* contractorname is copied to developer when developer is not set
MapDeveloper(permit) ==
    IF permit.contractorname.k # "absent" /\ permit.developer.k = "absent"
    THEN [permit EXCEPT !.developer = permit.contractorname]
    ELSE permit

\* (mutant of OrFromDescription: the description is consulted in every case)
OrFromDescriptionAlways(permit, first) ==
    IF IsRaise(first) THEN [extracted |-> first, fields |-> <<"approvedscopeofwork">>]
    ELSE [extracted |-> IF Truthy(first) THEN first
                        ELSE extract_unit_count_from_text(
                                 Get(permit, "permitdescription", PyNone)),
          fields |-> <<"approvedscopeofwork", "permitdescription">>]

\* the second narrative is tried when the first gave nothing:
\* [extracted, fields], fields being the narratives that
\* extract_unit_count_from_text was called on, in order
OrFromDescription(permit, first) ==
    IF IsRaise(first) \/ Truthy(first)
    THEN [extracted |-> first, fields |-> <<"approvedscopeofwork">>]
    ELSE [extracted |-> extract_unit_count_from_text(
                            Get(permit, "permitdescription", PyNone)),
          fields |-> <<"approvedscopeofwork", "permitdescription">>]

ExtractFromNarratives(permit) ==
    OrFromDescription(permit,
        extract_unit_count_from_text(Get(permit, "approvedscopeofwork", PyNone)))

\* the branch taken when nothing was extracted: [exc, permit]
FlagZoningMultiFamily(permit, scope, permit_num) ==
    IF scope.k # "str" \/ permit_num.k # "str"
    THEN [exc |-> "AttributeError", permit |-> permit]
    ELSE IF /\ StartsWith(permit_num.s, LitZP)
            /\ Contains(Lower(scope.s), LitMultiFamily)
    THEN [exc |-> "",
          permit |-> [permit EXCEPT !.numberofunits = UnknownMultiFamily,
                                    !.units_source = "zoning_multifamily"]]
    ELSE [exc |-> "", permit |-> [permit EXCEPT !.units_source = "unknown"]]

\* (mutant of UnitsFromText: any extracted value but None counts, 0 included)
UnitsFromTextNotNone(permit, ex) ==
    IF IsRaise(ex.extracted)
    THEN [exc |-> ex.extracted.k, permit |-> permit, fields |-> ex.fields]
    ELSE IF ex.extracted.k # "none"
    THEN [exc |-> "",
          permit |-> [permit EXCEPT !.numberofunits = ex.extracted,
                                    !.units_source = "extracted"],
          fields |-> ex.fields]
    ELSE [fields |-> ex.fields] @@
         FlagZoningMultiFamily(permit,
                               Get(permit, "approvedscopeofwork", PyStr(<<>>)),
                               Get(permit, "permitnumber", PyStr(<<>>)))

\* the branch of a permit without a unit field, ex being what the narratives
\* gave: [exc, permit, fields]
UnitsFromText(permit, ex) ==
    IF IsRaise(ex.extracted)
    THEN [exc |-> ex.extracted.k, permit |-> permit, fields |-> ex.fields]
    ELSE IF Truthy(ex.extracted)
    THEN [exc |-> "",
          permit |-> [permit EXCEPT !.numberofunits = ex.extracted,
                                    !.units_source = "extracted"],
          fields |-> ex.fields]
    ELSE [fields |-> ex.fields] @@
         FlagZoningMultiFamily(permit,
                               Get(permit, "approvedscopeofwork", PyStr(<<>>)),
                               Get(permit, "permitnumber", PyStr(<<>>)))

\* (mutant of UnitsFromField: the field is kept as it came, not converted)
UnitsFromFieldAsIs(permit, units) ==
    IF IsRaise(units)
    THEN [exc |-> units.k, permit |-> permit, fields |-> <<>>]
    ELSE [exc |-> "",
          permit |-> [permit EXCEPT !.units_source = "field"],
          fields |-> <<>>]

\* the branch of a permit with a unit field, units being int(field):
\* [exc, permit, fields]
UnitsFromField(permit, units) ==
    IF IsRaise(units)
    THEN [exc |-> units.k, permit |-> permit, fields |-> <<>>]
    ELSE [exc |-> "",
          permit |-> [permit EXCEPT !.numberofunits = units,
                                    !.units_source = "field"],
          fields |-> <<>>]

\* (mutant of EnrichUnits: the narratives are tried whatever the field holds)
EnrichUnitsTextFirst(permit) ==
    UnitsFromText(permit, ExtractFromNarratives(permit))

\* the unit count of one permit, from the field or from the narratives:
\* [exc, permit, fields]
EnrichUnits(permit) ==
    IF ~Truthy(Get(permit, "numberofunits", PyNone))
    THEN UnitsFromText(permit, ExtractFromNarratives(permit))
    ELSE UnitsFromField(permit, PyIntOf(Get(permit, "numberofunits", PyNone)))

\* the filter by minimum units, has_units being the permit's numberofunits:
\* [exc, keep]
\* (mutant of AtLeast: the comparison strict)
MoreThan(units, threshold) ==
    IF IsRaise(units) THEN [exc |-> units.k, keep |-> FALSE]
    ELSE [exc |-> "", keep |-> units.n > threshold]

AtLeast(units, threshold) ==
    IF IsRaise(units) THEN [exc |-> units.k, keep |-> FALSE]
    ELSE [exc |-> "", keep |-> units.n >= threshold]

HasMinUnits(has_units, threshold) ==
    IF ~Truthy(has_units) THEN [exc |-> "", keep |-> FALSE]
    ELSE IF has_units.k = "str" /\ Contains(has_units.s, LitUnknown)
    THEN [exc |-> "", keep |-> TRUE]
    ELSE AtLeast(PyIntOf(has_units), threshold)

MeetsMinUnits(permit, threshold) ==
    HasMinUnits(Get(permit, "numberofunits", PyNone), threshold)

\* ------------------------------------------------------------ state

VARIABLES
    \* a call of extract_unit_count_from_text: its argument and what it returned
    text, ret,
    \* a call of get_permits or of get_appeals
    kind,               \* "permits" or "appeals": which of the two is running
    min_units,          \* the threshold argument of get_permits
    all_permits,        \* the rows query_arcgis returned
    permits,            \* the list the loops run over (appeals in get_appeals)
    seen_permits,       \* the dict of the deduplication, in insertion order
    i,                  \* the position of the running loop in permits
    pc,                 \* "filter", "dedup", "enrich", "returned", or where
                        \* an exception left: "dedup_raised", "enrich_raised"
    filtered_permits,   \* the list get_permits builds
    returned,           \* the returned list
    exc,                \* the exception that left the function, "" if none
    calls,              \* the calls of extract_unit_count_from_text made
    \* a call of GeographicMatcher.match_neighborhood
    neighborhood_shapes,    \* the polygons load_geodata built, in load order
    lon, lat,               \* the arguments
    at,                     \* the position of the loop in neighborhood_shapes
    match_pc,               \* "guard", "bounds", "contains", "returned"
    matched,                \* what the call returned
    bounds_checked,         \* how many bounding-box tests the call made
    contains_called,        \* how many times it called geometry.contains
    \* a GeographicMatcher after construction and the operations called on it
    items,                  \* the list of records the caller holds
    op,                     \* the operation called last
    op_args,                \* its argument: coordinates, or a requested list
    op_ret,                 \* what it returned
    history,                \* the match_neighborhood calls made: [lon, lat, name]
    ops,                    \* how many operations were called
    \* a call of generate_digest
    permit_query,           \* what the freshness query of the permits will do
    appeal_query,           \* what the freshness query of the appeals will do
    get_permits_result,     \* what get_permits will do: raise, or return rows
    get_appeals_result,     \* what get_appeals will do
    freshness,              \* the tuple check_data_freshness returned
    warnings,               \* freshness_warnings.warnings
    digest_permits,         \* permits, once fetched
    appeals,                \* appeals, once fetched
    fetched,                \* the fetches attempted, in order
    all_projects,           \* the pool the largest project is chosen from
    grouped_permits,        \* group_by_district(permits), in insertion order
    grouped_appeals,        \* group_by_district(appeals)
    digest,                 \* what the renderer returned
    digest_pc,              \* the step generate_digest is at
    \* the construction of a GeographicMatcher
    geodata_file,           \* neighborhoods.geojson: whether it exists, its features
    matcher,                \* "none", "init" (in __init__), "constructed", "failed"
    shapes_is_none,         \* self.neighborhood_shapes is None
    load_exc,               \* the exception that left the constructor, or ""
    \* a run of main, the command line entry of generate_digest.py
    argv_days,              \* the value of --days, Absent when the flag is omitted
    now_day,                \* datetime.now(), as a day number
    streams_empty,          \* which of the two fetches will return no record
    start_date,             \* the start_date main passes, as a day number
    end_date,               \* the end_date main passes
    days_back,              \* days_back of generate_digest
    fetch_days,             \* the days arguments of get_permits and get_appeals
    last_days_messages,     \* the N of the "in the last N days" messages shown
    main_pc,                \* "args", "days_back", "fetch", "render", "done"
    subscribers,         \* what get_subscribers() returns
    mail_permits,        \* the permits send_filtered_daily_digests is given
    mail_variances,      \* the variances it is given
    groups,              \* group_subscribers_by_preferences()'s result
    sent,                \* the send_email calls made so far, in order
    sent_count,          \* send_filtered_daily_digests: sent_count
    mail_i,              \* position in the dict being iterated
    failing_send,        \* the send_email call answered with an HTTP error
    mail_result,         \* what send_filtered_daily_digests returned
    mail_pc              \* where send_filtered_daily_digests stands

extractVars == <<text, ret>>
fetchVars == <<kind, min_units, all_permits, permits, seen_permits, i, pc,
               filtered_permits, returned, exc, calls>>
matchVars == <<neighborhood_shapes, lon, lat, at, match_pc, matched,
               bounds_checked, contains_called>>
opsVars == <<items, op, op_args, op_ret, history, ops>>
digestVars == <<permit_query, appeal_query, get_permits_result,
                get_appeals_result, freshness, warnings, digest_permits, appeals,
                fetched, all_projects, grouped_permits, grouped_appeals, digest,
                digest_pc>>
constructVars == <<geodata_file, matcher, shapes_is_none, load_exc>>
mainVars == <<argv_days, now_day, streams_empty, start_date, end_date, days_back,
              fetch_days, last_days_messages, main_pc>>
mailVars == <<subscribers, mail_permits, mail_variances, groups, sent,
              sent_count, mail_i, failing_send, mail_result, mail_pc>>
vars == <<extractVars, fetchVars, matchVars, opsVars, digestVars, constructVars,
         mainVars,
         mailVars>>

\* no value yet: the call has not returned
Pending == [k |-> "pending", n |-> 0, s |-> <<>>]

\* --------------------------------------------- inputs of the extractor

\* the longest text, in vocabulary tokens, that is enumerated
MaxTokens == 3

Vocabulary == {
    <<"1", "2", " ", "u", "n", "i", "t", "s">>,
    <<"(", "8", ")", "-", "f", "a", "m", "i", "l", "y">>,
    <<"0", " ", "u", "n", "i", "t">>,
    <<"2">>,
    <<" ">>,
    <<"-">>,
    <<"\n">>,
    <<"u", "n", "i", "t">>,
    <<"s">>,
    <<"d", "w", "e", "l", "l", "i", "n", "g">>,
    <<"S", "i", "n", "g", "l", "e", " ", "f", "a", "m", "i", "l", "y">>,
    <<"o", "n", "e">>
    }

RECURSIVE Flatten(_)
Flatten(tokens) ==
    IF tokens = <<>> THEN <<>> ELSE Head(tokens) \o Flatten(Tail(tokens))

SingleFamilyHome ==
    <<"s", "i", "n", "g", "l", "e", " ", "f", "a", "m", "i", "l", "y", " ",
      "h", "o", "m", "e">>
Requesting12Unit ==
    <<"r", "e", "q", "u", "e", "s", "t", "i", "n", "g", " ", "a", " ",
      "1", "2", "-", "u", "n", "i", "t", " ",
      "m", "u", "l", "t", "i", "-", "f", "a", "m", "i", "l", "y", " ",
      "d", "w", "e", "l", "l", "i", "n", "g">>

Texts ==
    {Flatten(tokens) : tokens \in UNION {[1..n -> Vocabulary] : n \in 0..MaxTokens}}
        \cup {SingleFamilyHome, Requesting12Unit}

\* the arguments: None, every text, and values that are no str
ExtractArgs == {PyNone, PyInt(0), PyInt(5)} \cup {PyStr(t) : t \in Texts}

\* --------------------------------------------- the extractor, called

ExtractIdle ==
    /\ text = PyNone
    /\ ret = Pending

FetchIdle ==
    /\ kind = "permits"
    /\ min_units = 1
    /\ all_permits = <<>>
    /\ permits = <<>>
    /\ seen_permits = <<>>
    /\ i = 1
    /\ pc = "idle"
    /\ filtered_permits = <<>>
    /\ returned = <<>>
    /\ exc = ""
    /\ calls = <<>>

MatchIdle ==
    /\ neighborhood_shapes = <<>>
    /\ lon = PyNone
    /\ lat = PyNone
    /\ at = 1
    /\ match_pc = "idle"
    /\ matched = Pending
    /\ bounds_checked = 0
    /\ contains_called = 0

OpsIdle ==
    /\ items = <<>>
    /\ op = "idle"
    /\ op_args = <<>>
    /\ op_ret = PyNone
    /\ history = {}
    /\ ops = 0

DigestIdle ==
    /\ permit_query = PyNone
    /\ appeal_query = PyNone
    /\ get_permits_result = PyNone
    /\ get_appeals_result = PyNone
    /\ freshness = PyNone
    /\ warnings = <<>>
    /\ digest_permits = <<>>
    /\ appeals = <<>>
    /\ fetched = <<>>
    /\ all_projects = <<>>
    /\ grouped_permits = <<>>
    /\ grouped_appeals = <<>>
    /\ digest = Pending
    /\ digest_pc = "idle"

ConstructIdle ==
    /\ geodata_file = [exists |-> TRUE, features |-> <<>>]
    /\ matcher = "constructed"
    /\ shapes_is_none = FALSE
    /\ load_exc = ""

MainIdle ==
    /\ argv_days = Absent
    /\ now_day = 0
    /\ streams_empty = {}
    /\ start_date = 0
    /\ end_date = 0
    /\ days_back = 0
    /\ fetch_days = <<>>
    /\ last_days_messages = <<>>
    /\ main_pc = "idle"

MailIdle ==
    /\ subscribers = <<>>
    /\ mail_permits = <<>>
    /\ mail_variances = <<>>
    /\ groups = [citywide |-> <<>>, neighborhoods |-> <<>>, districts |-> <<>>]
    /\ sent = <<>>
    /\ sent_count = 0
    /\ mail_i = 0
    /\ failing_send = 0
    /\ mail_result = PyNone
    /\ mail_pc = "idle"

ExtractInit ==
    /\ text \in ExtractArgs
    /\ ret = Pending
    /\ FetchIdle
    /\ MatchIdle
    /\ OpsIdle
    /\ DigestIdle
    /\ ConstructIdle
    /\ MainIdle
    /\ MailIdle

ExtractCall ==
    /\ ret = Pending
    /\ ret' = extract_unit_count_from_text(text)
    /\ UNCHANGED <<text, fetchVars, matchVars, opsVars, digestVars,
                   constructVars, mainVars, mailVars>>

ExtractNext == ExtractCall

SpecExtract == ExtractInit /\ [][ExtractNext]_vars

\* --------------------------------------- inputs of get_permits, get_appeals

\* the longest query result enumerated for the deduplication
MaxRows == 3
\* the longest query result enumerated for the enrichment
MaxEnrichRows == 2

IdRP == PyStr(<<"R", "P", "-", "1">>)
IdZP == PyStr(<<"Z", "P", "-", "2">>)
Date0101 == PyStr(<<"2", "0", "2", "4", "-", "0", "1", "-", "0", "1">>)
Date0105 == PyStr(<<"2", "0", "2", "4", "-", "0", "1", "-", "0", "5">>)
ScopeEight ==
    PyStr(<<"8", "-", "u", "n", "i", "t", " ", "a", "p", "a", "r", "t", "m", "e",
            "n", "t", " ", "b", "u", "i", "l", "d", "i", "n", "g">>)
ScopeMulti ==
    PyStr(<<"M", "u", "l", "t", "i", "-", "F", "a", "m", "i", "l", "y", " ",
            "R", "e", "s", "i", "d", "e", "n", "t", "i", "a", "l">>)
ScopeZero ==
    PyStr(<<"0", " ", "u", "n", "i", "t", "s", " ",
            "r", "e", "s", "i", "d", "e", "n", "t", "i", "a", "l">>)
ScopeHome == PyStr(<<"r", "e", "s", "i", "d", "e", "n", "t", "i", "a", "l", " ",
                     "h", "o", "m", "e">>)
DescTwelve == PyStr(<<"1", "2", " ", "f", "a", "m", "i", "l", "y">>)
DescZero == PyStr(<<"0", " ", "u", "n", "i", "t", "s">>)
Acme == PyStr(<<"a", "c", "m", "e">>)

\* a permit row as query_arcgis returns it; row is the identity of the object
PermitRow(row, id, date, typeofwork, units, scope, desc) ==
    [row |-> row, permitnumber |-> id, permitissuedate |-> date,
     typeofwork |-> typeofwork, numberofunits |-> units,
     approvedscopeofwork |-> scope, permitdescription |-> desc,
     contractorname |-> Acme, developer |-> Absent, units_source |-> "<unset>"]

AppealRow(row, id, date) ==
    [row |-> row, appealnumber |-> id, createddate |-> date]

DedupDates == {Absent, PyNone, Date0101, Date0105}
\* identifier and timestamp of a row; the timestamp of a row without
\* identifier is never read
DedupKeys ==
    ({Absent, PyStr(<<>>)} \X {Date0101}) \cup ({IdRP, IdZP} \X DedupDates)

\* query results that differ in identifier and timestamp
DedupPermitRows ==
    {[r \in DOMAIN f |-> PermitRow(r, f[r][1], f[r][2], PyStr(LitNewConstruction),
                               PyInt(8), Absent, Absent)] :
        f \in UNION {[1..n -> DedupKeys] : n \in 0..MaxRows}}
DedupAppealRows ==
    {[r \in DOMAIN f |-> AppealRow(r, f[r][1], f[r][2])] :
        f \in UNION {[1..n -> DedupKeys] : n \in 0..MaxRows}}

\* a single permit, differing in the fields the enrichment reads
EnrichSingles ==
    {<<PermitRow(1, id, Date0101, PyStr(tow), units, scope, desc)>> :
        id \in {IdRP, IdZP}, tow \in {LitNewConstruction, LitChangeOfUse},
        units \in {Absent, PyNone, PyInt(0), PyInt(8), PyFloat(12)},
        scope \in {Absent, PyNone, ScopeEight, ScopeMulti, ScopeZero, ScopeHome},
        desc \in {Absent, PyNone, DescTwelve, DescZero}}

\* several permits of distinct numbers
EnrichChoices ==
    {Absent, PyInt(8)} \X {PyNone, ScopeEight, ScopeMulti}
EnrichLists ==
    {[r \in DOMAIN f |-> PermitRow(r, IF r % 2 = 1 THEN IdZP ELSE IdRP,
                               IF r <= 2 THEN Date0101 ELSE Date0105,
                               PyStr(LitNewConstruction),
                               f[r][1], f[r][2], Absent)] :
        f \in UNION {[1..n -> EnrichChoices] : n \in 2..MaxEnrichRows}}

MinUnitsChoices == {0, 5, 8, 10}

\* ----------------------------------------- get_permits, get_appeals, called

FetchInit ==
    /\ \/ /\ kind = "permits"
          /\ all_permits \in DedupPermitRows
          /\ min_units = 1
       \/ /\ kind = "appeals"
          /\ all_permits \in DedupAppealRows
          /\ min_units = 1
       \/ /\ kind = "permits"
          /\ all_permits \in EnrichSingles \cup EnrichLists
          /\ min_units \in MinUnitsChoices
    /\ permits = IF kind = "permits" THEN <<>> ELSE all_permits
    /\ pc = IF kind = "permits" THEN "filter" ELSE "dedup"
    /\ seen_permits = <<>>
    /\ i = 1
    /\ filtered_permits = <<>>
    /\ returned = <<>>
    /\ exc = ""
    /\ calls = <<>>
    /\ ExtractIdle
    /\ MatchIdle
    /\ OpsIdle
    /\ DigestIdle
    /\ ConstructIdle
    /\ MainIdle
    /\ MailIdle

\* get_permits: the Change of Use filter
FilterChangeOfUse ==
    /\ pc = "filter"
    /\ permits' = ChangeOfUseFilter(all_permits)
    /\ pc' = "dedup"
    /\ i' = 1
    /\ UNCHANGED <<kind, min_units, all_permits, seen_permits,
                   filtered_permits, returned, exc, calls, extractVars,
                   matchVars, opsVars, digestVars, constructVars, mainVars,
                   mailVars>>

\* one iteration of the deduplication loop
DedupStep ==
    /\ pc = "dedup"
    /\ i <= Len(permits)
    /\ LET r == DedupOne(seen_permits, permits[i], kind)
       IN  IF r.exc # ""
           THEN /\ pc' = "dedup_raised"
                /\ exc' = r.exc
                /\ UNCHANGED <<seen_permits, i>>
           ELSE /\ seen_permits' = r.seen
                /\ i' = i + 1
                /\ UNCHANGED <<pc, exc>>
    /\ UNCHANGED <<kind, min_units, all_permits, permits, filtered_permits,
                   returned, calls, extractVars, matchVars, opsVars,
                   digestVars, constructVars, mainVars, mailVars>>

\* the end of the deduplication: get_permits goes on with the values,
\* get_appeals returns them
DedupFinish ==
    /\ pc = "dedup"
    /\ i > Len(permits)
    /\ IF kind = "permits"
       THEN /\ permits' = Values(seen_permits)
            /\ pc' = "enrich"
            /\ i' = 1
            /\ UNCHANGED returned
       ELSE /\ returned' = Values(seen_permits)
            /\ pc' = "returned"
            /\ UNCHANGED <<permits, i>>
    /\ UNCHANGED <<kind, min_units, all_permits, seen_permits,
                   filtered_permits, exc, calls, extractVars, matchVars,
                   opsVars, digestVars, constructVars, mainVars, mailVars>>

\* one iteration of the enrichment loop of get_permits
EnrichStep ==
    /\ pc = "enrich"
    /\ i <= Len(permits)
    /\ \E e \in {EnrichUnits(MapDeveloper(permits[i]))} :
       \E m \in {MeetsMinUnits(e.permit, min_units)} :
           /\ calls' = calls \o [c \in 1..Len(e.fields) |->
                                   [row |-> permits[i].row, field |-> e.fields[c]]]
           /\ IF e.exc # "" \/ m.exc # ""
              THEN /\ pc' = "enrich_raised"
                   /\ exc' = IF e.exc # "" THEN e.exc ELSE m.exc
                   /\ permits' = IF e.exc # "" THEN permits
                                 ELSE [permits EXCEPT ![i] = e.permit]
                   /\ UNCHANGED <<filtered_permits, i>>
              ELSE /\ permits' = [permits EXCEPT ![i] = e.permit]
                   /\ filtered_permits' =
                          IF m.keep THEN Append(filtered_permits, e.permit)
                          ELSE filtered_permits
                   /\ i' = i + 1
                   /\ UNCHANGED <<pc, exc>>
    /\ UNCHANGED <<kind, min_units, all_permits, seen_permits, returned,
                   extractVars, matchVars, opsVars, digestVars, constructVars,
                   mainVars, mailVars>>

\* return filtered_permits
ReturnPermits ==
    /\ pc = "enrich"
    /\ i > Len(permits)
    /\ returned' = filtered_permits
    /\ pc' = "returned"
    /\ UNCHANGED <<kind, min_units, all_permits, permits, seen_permits, i,
                   filtered_permits, exc, calls, extractVars, matchVars,
                   opsVars, digestVars, constructVars, mainVars, mailVars>>

FetchNext ==
    \/ FilterChangeOfUse
    \/ DedupStep
    \/ DedupFinish
    \/ EnrichStep
    \/ ReturnPermits

Spec == FetchInit /\ [][FetchNext]_vars

\* ------------------------------- GeographicMatcher.match_neighborhood

\* The polygons of neighborhoods.geojson, on a grid: a rectangle, or the
\* triangle under the diagonal of one, with the corner (x0, y0).
Box(x0, y0, x1, y1) ==
    [form |-> "box", x0 |-> x0, y0 |-> y0, x1 |-> x1, y1 |-> y1]
Triangle(x0, y0, x1, y1) ==
    [form |-> "triangle", x0 |-> x0, y0 |-> y0, x1 |-> x1, y1 |-> y1]

\* geom.bounds: (minx, miny, maxx, maxy)
Bounds(geom) == <<geom.x0, geom.y0, geom.x1, geom.y1>>

\* prepared.contains(Point(x, y)): the point is in the interior of the polygon
GeomContains(geom, x, y) ==
    /\ geom.x0 < x /\ x < geom.x1
    /\ geom.y0 < y /\ y < geom.y1
    /\ geom.form = "triangle" =>
          (x - geom.x0) * (geom.y1 - geom.y0) + (y - geom.y0) * (geom.x1 - geom.x0)
             < (geom.x1 - geom.x0) * (geom.y1 - geom.y0)

\* one element of neighborhood_shapes
Shape(name, geom) == [name |-> name, geometry |-> geom, bounds |-> Bounds(geom)]

\* (mutant of MissingCoordinate: only None counts as missing)
CoordinateIsNone(x, y) == x = PyNone \/ y = PyNone

\* not lon or not lat
MissingCoordinate(x, y) == ~Truthy(x) \/ ~Truthy(y)

\* (mutant of InBounds: every polygon goes to the exact test)
NoBoundsTest(bounds, x, y) == TRUE

\* minx <= lon <= maxx and miny <= lat <= maxy
InBounds(bounds, x, y) ==
    /\ bounds[1] <= x /\ x <= bounds[3]
    /\ bounds[2] <= y /\ y <= bounds[4]

\* the greatest coordinate, in grid units, that is enumerated
MaxCoord == 2

Fishtown == PyStr(<<"F", "i", "s", "h", "t", "o", "w", "n">>)
CenterCity == PyStr(<<"C", "e", "n", "t", "e", "r", " ", "C", "i", "t", "y">>)
Unknown == PyStr(LitUnknown)

\* the polygon lists a matcher is constructed with
ShapeLists == {
    <<>>,
    <<Shape(Fishtown, Box(-2, -2, 2, 2))>>,
    <<Shape(Fishtown, Box(-2, -2, 1, 1)), Shape(CenterCity, Box(-1, -1, 2, 2))>>,
    <<Shape(Unknown, Triangle(-2, -2, 2, 2)), Shape(Fishtown, Box(0, 0, 2, 2)),
      Shape(CenterCity, Box(-2, -1, 3, 3))>>
    }

\* the arguments: None, 0.0, and the points of the grid
Coordinates ==
    {PyNone, PyFloat(0)} \cup {PyInt(c) : c \in (0 - MaxCoord)..MaxCoord}

MatchInit ==
    /\ neighborhood_shapes \in ShapeLists
    /\ lon \in Coordinates
    /\ lat \in Coordinates
    /\ at = 1
    /\ match_pc = "guard"
    /\ matched = Pending
    /\ bounds_checked = 0
    /\ contains_called = 0
    /\ ExtractIdle
    /\ FetchIdle
    /\ OpsIdle
    /\ DigestIdle
    /\ ConstructIdle
    /\ MainIdle
    /\ MailIdle

\* lines 59-62
MatchGuard ==
    /\ match_pc = "guard"
    /\ IF MissingCoordinate(lon, lat)
       THEN /\ matched' = PyNone
            /\ match_pc' = "returned"
       ELSE /\ match_pc' = "bounds"
            /\ UNCHANGED matched
    /\ UNCHANGED <<neighborhood_shapes, lon, lat, at, bounds_checked,
                   contains_called, extractVars, fetchVars, opsVars,
                   digestVars, constructVars, mainVars, mailVars>>

\* lines 65-69, one polygon
MatchBounds ==
    /\ match_pc = "bounds"
    /\ at <= Len(neighborhood_shapes)
    /\ bounds_checked' = bounds_checked + 1
    /\ IF InBounds(neighborhood_shapes[at].bounds, lon.n, lat.n)
       THEN /\ match_pc' = "contains"
            /\ UNCHANGED at
       ELSE /\ at' = at + 1
            /\ UNCHANGED match_pc
    /\ UNCHANGED <<neighborhood_shapes, lon, lat, matched, contains_called,
                   extractVars, fetchVars, opsVars, digestVars, constructVars,
                   mainVars, mailVars>>

\* (mutant of MatchContains: the name is kept and the loop goes on)
MatchContainsNoReturn ==
    /\ match_pc = "contains"
    /\ contains_called' = contains_called + 1
    /\ matched' = IF GeomContains(neighborhood_shapes[at].geometry, lon.n, lat.n)
                  THEN neighborhood_shapes[at].name ELSE matched
    /\ at' = at + 1
    /\ match_pc' = "bounds"
    /\ UNCHANGED <<neighborhood_shapes, lon, lat, bounds_checked, extractVars,
                   fetchVars, opsVars, digestVars, constructVars, mainVars,
                   mailVars>>

\* lines 72-73, one polygon
MatchContains ==
    /\ match_pc = "contains"
    /\ contains_called' = contains_called + 1
    /\ IF GeomContains(neighborhood_shapes[at].geometry, lon.n, lat.n)
       THEN /\ matched' = neighborhood_shapes[at].name
            /\ match_pc' = "returned"
            /\ UNCHANGED at
       ELSE /\ at' = at + 1
            /\ match_pc' = "bounds"
            /\ UNCHANGED matched
    /\ UNCHANGED <<neighborhood_shapes, lon, lat, bounds_checked, extractVars,
                   fetchVars, opsVars, digestVars, constructVars, mainVars,
                   mailVars>>

\* line 75
MatchNone ==
    /\ match_pc = "bounds"
    /\ at > Len(neighborhood_shapes)
    /\ matched' = PyNone
    /\ match_pc' = "returned"
    /\ UNCHANGED <<neighborhood_shapes, lon, lat, at, bounds_checked,
                   contains_called, extractVars, fetchVars, opsVars,
                   digestVars, constructVars, mainVars, mailVars>>

MatchNext ==
    \/ MatchGuard
    \/ MatchBounds
    \/ MatchContains
    \/ MatchNone

SpecMatch == MatchInit /\ [][MatchNext]_vars

\* ----------------------------------- GeographicMatcher, its operations

\* the loop of lines 65-75 from the polygon at n
RECURSIVE MatchFrom(_, _, _, _)
MatchFrom(shapes, x, y, n) ==
    IF n > Len(shapes) THEN PyNone
    ELSE IF /\ InBounds(shapes[n].bounds, x, y)
            /\ GeomContains(shapes[n].geometry, x, y)
         THEN shapes[n].name
         ELSE MatchFrom(shapes, x, y, n + 1)

\* match_neighborhood as a function of the polygon list and the arguments
match_neighborhood(shapes, x, y) ==
    IF MissingCoordinate(x, y) THEN PyNone ELSE MatchFrom(shapes, x.n, y.n, 1)

enrich_permit(shapes, permit) ==
    IF \/ ~Truthy(Get(permit, "geocode_x", PyNone))
       \/ ~Truthy(Get(permit, "geocode_y", PyNone))
    THEN [permit EXCEPT !.neighborhood = PyNone]
    ELSE [permit EXCEPT !.neighborhood =
             match_neighborhood(shapes, permit.geocode_x, permit.geocode_y)]

\* (mutant of enrich_items: only the records that got a neighborhood are kept)
enrich_matched_only(shapes, its) ==
    SelectSeq([n \in 1..Len(its) |-> enrich_permit(shapes, its[n])],
              LAMBDA item : Truthy(item.neighborhood))

enrich_items(shapes, its) ==
    [n \in 1..Len(its) |-> enrich_permit(shapes, its[n])]

\* the decimal digits of a number n >= 0
RECURSIVE Decimal(_)
Decimal(n) ==
    IF n < 10 THEN <<Digits[n + 1]>> ELSE Decimal(n \div 10) \o <<Digits[(n % 10) + 1]>>

\* str(v)
PyStrOf(v) ==
    CASE v.k = "str" -> v.s
      [] v.k = "int" -> IF v.n < 0 THEN <<"-">> \o Decimal(0 - v.n) ELSE Decimal(v.n)
      [] v.k = "float" -> (IF v.n < 0 THEN <<"-">> \o Decimal(0 - v.n)
                           ELSE Decimal(v.n)) \o <<".", "0">>
      [] OTHER -> <<"N", "o", "n", "e">>

LitCitywide == <<"c", "i", "t", "y", "w", "i", "d", "e">>

\* a requested list: None, or a list of str
NoRequest == [k |-> "none", v |-> <<>>]
Request(list) == [k |-> "list", v |-> list]

\* (mutant of NoFilter: only 'citywide' turns the filter off)
OnlyCitywide(requested) ==
    /\ requested.k = "list"
    /\ \E n \in 1..Len(requested.v) : Lower(requested.v[n]) = LitCitywide

\* not requested or 'citywide' in [n.lower() for n in requested]
NoFilter(requested) ==
    \/ requested.k = "none"
    \/ requested.v = <<>>
    \/ \E n \in 1..Len(requested.v) : Lower(requested.v[n]) = LitCitywide

\* value in requested, value being None or a str
InRequested(value, requested) ==
    /\ value.k = "str"
    /\ \E n \in 1..Len(requested.v) : requested.v[n] = value.s

filter_by_neighborhoods(its, neighborhoods) ==
    IF NoFilter(neighborhoods) THEN its
    ELSE SelectSeq(its, LAMBDA item :
             InRequested(Get(item, "neighborhood", PyNone), neighborhoods))

filter_by_districts(its, districts) ==
    IF NoFilter(districts) THEN its
    ELSE SelectSeq(its, LAMBDA item :
             InRequested(PyStr(PyStrOf(Get(item, "council_district", PyNone))),
                         districts))

\* sorted(S) of a set of str
RECURSIVE Sorted(_)
Sorted(S) ==
    IF S = {} THEN <<>>
    ELSE LET least == CHOOSE a \in S : \A b \in S \ {a} : StrGT(b, a)
         IN  <<least>> \o Sorted(S \ {least})

get_unique_neighborhoods(its) ==
    Sorted({its[n].neighborhood.s :
               n \in {m \in 1..Len(its) : Truthy(Get(its[m], "neighborhood", PyNone))}})

get_unique_districts(its) ==
    Sorted({PyStrOf(its[n].council_district) :
               n \in {m \in 1..Len(its) : Truthy(Get(its[m], "council_district", PyNone))}})

\* a record as the caller holds it: the coordinates, the district and, once
\* known, the neighborhood
Item(row, x, y, district, neighborhood) ==
    [row |-> row, geocode_x |-> x, geocode_y |-> y,
     council_district |-> district, neighborhood |-> neighborhood]

Three == PyStr(<<"3">>)
Ten == PyStr(<<"1", "0">>)

\* the most operations called on one matcher
MaxOps == 3

\* the lists of records operations are called on
OpItemLists == {
    <<>>,
    <<Item(1, PyInt(1), PyInt(1), PyInt(3), Absent)>>,
    <<Item(1, PyInt(-1), PyInt(-1), Ten, Absent),
      Item(2, Absent, Absent, Absent, Absent)>>,
    <<Item(1, PyInt(2), PyInt(-2), Three, Absent),
      Item(2, PyInt(1), PyInt(1), PyInt(3), Absent),
      Item(3, PyInt(0), PyInt(1), PyNone, Absent)>>
    }
\* the points match_neighborhood is called with
OpPoints == {<<PyInt(1), PyInt(1)>>, <<PyInt(-1), PyInt(1)>>,
             <<PyInt(-1), PyInt(-1)>>, <<PyNone, PyInt(1)>>}
OpRequests == {NoRequest, Request(<<Fishtown.s>>), Request(<<Three.s, Ten.s>>)}

OpsInit ==
    /\ neighborhood_shapes \in ShapeLists \ {<<>>}
    /\ items \in OpItemLists
    /\ op = "__init__"
    /\ op_args = <<>>
    /\ op_ret = PyNone
    /\ history = {}
    /\ ops = 0
    /\ lon = PyNone /\ lat = PyNone /\ at = 1 /\ match_pc = "idle"
    /\ matched = Pending /\ bounds_checked = 0 /\ contains_called = 0
    /\ ExtractIdle
    /\ FetchIdle
    /\ DigestIdle
    /\ ConstructIdle
    /\ MainIdle
    /\ MailIdle

\* (mutant of OpMatchNeighborhood: the polygon found is moved to the front of
\* the list, to be found sooner by the next call)
OpMatchMoveToFront ==
    /\ ops < MaxOps
    /\ \E point \in OpPoints :
       \E name \in {match_neighborhood(neighborhood_shapes, point[1], point[2])} :
          /\ op' = "match_neighborhood"
          /\ op_args' = point
          /\ op_ret' = name
          /\ history' = history \cup {[lon |-> point[1], lat |-> point[2], name |-> name]}
          /\ neighborhood_shapes' =
                SelectSeq(neighborhood_shapes, LAMBDA shape : shape.name = name)
                   \o SelectSeq(neighborhood_shapes, LAMBDA shape : shape.name # name)
    /\ ops' = ops + 1
    /\ UNCHANGED <<items, lon, lat, at, match_pc, matched, bounds_checked,
                   contains_called, extractVars, fetchVars, digestVars,
                   constructVars, mainVars, mailVars>>

OpMatchNeighborhood ==
    /\ ops < MaxOps
    /\ \E point \in OpPoints :
       \E name \in {match_neighborhood(neighborhood_shapes, point[1], point[2])} :
          /\ op' = "match_neighborhood"
          /\ op_args' = point
          /\ op_ret' = name
          /\ history' = history \cup {[lon |-> point[1], lat |-> point[2], name |-> name]}
    /\ ops' = ops + 1
    /\ UNCHANGED <<items, matchVars, extractVars, fetchVars, digestVars,
                   constructVars, mainVars, mailVars>>

\* enrich_items changes the records of the list in place and returns a new list
OpEnrichItems ==
    /\ ops < MaxOps
    /\ op' = "enrich_items"
    /\ op_args' = <<>>
    /\ items' = enrich_items(neighborhood_shapes, items)
    /\ op_ret' = items'
    /\ ops' = ops + 1
    /\ UNCHANGED <<history, matchVars, extractVars, fetchVars, digestVars,
                   constructVars, mainVars, mailVars>>

OpFilterByNeighborhoods(requests) ==
    /\ ops < MaxOps
    /\ \E neighborhoods \in requests :
          /\ op' = "filter_by_neighborhoods"
          /\ op_args' = neighborhoods
          /\ op_ret' = filter_by_neighborhoods(items, neighborhoods)
    /\ ops' = ops + 1
    /\ UNCHANGED <<items, history, matchVars, extractVars, fetchVars,
                   digestVars, constructVars, mainVars, mailVars>>

OpFilterByDistricts(requests) ==
    /\ ops < MaxOps
    /\ \E districts \in requests :
          /\ op' = "filter_by_districts"
          /\ op_args' = districts
          /\ op_ret' = filter_by_districts(items, districts)
    /\ ops' = ops + 1
    /\ UNCHANGED <<items, history, matchVars, extractVars, fetchVars,
                   digestVars, constructVars, mainVars, mailVars>>

OpGetUniqueNeighborhoods ==
    /\ ops < MaxOps
    /\ op' = "get_unique_neighborhoods"
    /\ op_args' = <<>>
    /\ op_ret' = get_unique_neighborhoods(items)
    /\ ops' = ops + 1
    /\ UNCHANGED <<items, history, matchVars, extractVars, fetchVars,
                   digestVars, constructVars, mainVars, mailVars>>

OpGetUniqueDistricts ==
    /\ ops < MaxOps
    /\ op' = "get_unique_districts"
    /\ op_args' = <<>>
    /\ op_ret' = get_unique_districts(items)
    /\ ops' = ops + 1
    /\ UNCHANGED <<items, history, matchVars, extractVars, fetchVars,
                   digestVars, constructVars, mainVars, mailVars>>

OpsNext ==
    \/ OpMatchNeighborhood
    \/ OpEnrichItems
    \/ OpFilterByNeighborhoods(OpRequests)
    \/ OpFilterByDistricts(OpRequests)
    \/ OpGetUniqueNeighborhoods
    \/ OpGetUniqueDistricts

SpecOps == OpsInit /\ [][OpsNext]_vars

\* ------------------------------ filter_by_neighborhoods, filter_by_districts

\* the longest list of records that is filtered
MaxItems == 2

FilterItems ==
    {<<neighborhood, district>> :
        neighborhood \in {Absent, PyNone, Fishtown, CenterCity},
        district \in {Absent, PyNone, PyInt(3), Three, PyFloat(3), Ten}}
FilterItemLists ==
    {[r \in DOMAIN f |-> Item(r, Absent, Absent, f[r][2], f[r][1])] :
        f \in UNION {[1..n -> FilterItems] : n \in 0..MaxItems}}

NeighborhoodRequests == {
    NoRequest, Request(<<>>), Request(<<LitCitywide>>),
    Request(<<<<"C", "i", "t", "y", "W", "i", "d", "e">>, Fishtown.s>>), Request(<<Fishtown.s>>),
    Request(<<Fishtown.s, CenterCity.s>>), Request(<<Lower(Fishtown.s)>>)
    }
DistrictRequests == {
    NoRequest, Request(<<>>), Request(<<<<"C", "I", "T", "Y", "W", "I", "D", "E">>>>),
    Request(<<Three.s>>), Request(<<Three.s, Ten.s>>),
    Request(<<PyStrOf(PyNone)>>), Request(<<PyStrOf(PyFloat(3))>>)
    }

FilterInit ==
    /\ items \in FilterItemLists
    /\ op = "__init__"
    /\ op_args = <<>>
    /\ op_ret = PyNone
    /\ history = {}
    /\ ops = MaxOps - 1
    /\ MatchIdle
    /\ ExtractIdle
    /\ FetchIdle
    /\ DigestIdle
    /\ ConstructIdle
    /\ MainIdle
    /\ MailIdle

FilterNext ==
    \/ OpFilterByNeighborhoods(NeighborhoodRequests)
    \/ OpFilterByDistricts(DistrictRequests)

SpecFilter == FilterInit /\ [][FilterNext]_vars

\* ----------------------------------------------- GeographicMatcher()

\* neighborhoods.geojson: missing, or a file with its features
NoFile == [exists |-> FALSE, features |-> <<>>]
File(features) == [exists |-> TRUE, features |-> features]

\* a feature: its properties' name, which may be missing, and its geometry,
\* which may be missing too
Feature(name, geom) == [name |-> name, geometry |-> geom]
NoGeometry == [form |-> "missing", x0 |-> 0, y0 |-> 0, x1 |-> 0, y1 |-> 0]

\* the element of neighborhood_shapes made from a feature
ShapeOf(feature) == Shape(Get(feature, "name", Unknown), feature.geometry)

MaxFeatures == 2
Features ==
    {Feature(name, geom) : name \in {Absent, Fishtown, CenterCity},
                           geom \in {Box(-2, -2, 1, 1), Box(-1, -1, 2, 2)}}
    \cup {Feature(Fishtown, NoGeometry)}
GeodataFiles ==
    {NoFile} \cup {File(f) : f \in UNION {[1..n -> Features] : n \in 0..MaxFeatures}}

ConstructInit ==
    /\ geodata_file \in GeodataFiles
    /\ matcher = "none"
    /\ shapes_is_none = TRUE
    /\ load_exc = ""
    /\ neighborhood_shapes = <<>>
    /\ lon = PyNone /\ lat = PyNone /\ at = 1 /\ match_pc = "idle"
    /\ matched = Pending /\ bounds_checked = 0 /\ contains_called = 0
    /\ OpsIdle
    /\ ExtractIdle
    /\ FetchIdle
    /\ DigestIdle
    /\ MainIdle
    /\ MailIdle

\* __init__ up to the call of load_geodata
NewMatcher ==
    /\ matcher = "none"
    /\ matcher' = "init"
    /\ shapes_is_none' = TRUE
    /\ UNCHANGED <<geodata_file, load_exc, matchVars, opsVars, extractVars,
                   fetchVars, digestVars, mainVars, mailVars>>

\* (mutant of LoadGeodata: a missing file is skipped and the matcher is
\* constructed without polygons)
LoadGeodataLenient ==
    /\ matcher = "init"
    /\ IF ~geodata_file.exists
       THEN /\ matcher' = "constructed"
            /\ UNCHANGED <<neighborhood_shapes, shapes_is_none, load_exc>>
       ELSE IF \E n \in 1..Len(geodata_file.features) :
                  geodata_file.features[n].geometry = NoGeometry
       THEN /\ matcher' = "failed"
            /\ load_exc' = "KeyError"
            /\ UNCHANGED <<neighborhood_shapes, shapes_is_none>>
       ELSE /\ neighborhood_shapes' = [n \in 1..Len(geodata_file.features) |->
                                          ShapeOf(geodata_file.features[n])]
            /\ shapes_is_none' = FALSE
            /\ matcher' = "constructed"
            /\ UNCHANGED load_exc
    /\ UNCHANGED <<geodata_file, lon, lat, at, match_pc, matched,
                   bounds_checked, contains_called, opsVars, extractVars,
                   fetchVars, digestVars, mainVars, mailVars>>

\* load_geodata, and the return of __init__
LoadGeodata ==
    /\ matcher = "init"
    /\ IF ~geodata_file.exists
       THEN /\ matcher' = "failed"
            /\ load_exc' = "FileNotFoundError"
            /\ UNCHANGED <<neighborhood_shapes, shapes_is_none>>
       ELSE IF \E n \in 1..Len(geodata_file.features) :
                  geodata_file.features[n].geometry = NoGeometry
       THEN /\ matcher' = "failed"
            /\ load_exc' = "KeyError"
            /\ UNCHANGED <<neighborhood_shapes, shapes_is_none>>
       ELSE /\ neighborhood_shapes' = [n \in 1..Len(geodata_file.features) |->
                                          ShapeOf(geodata_file.features[n])]
            /\ shapes_is_none' = FALSE
            /\ matcher' = "constructed"
            /\ UNCHANGED load_exc
    /\ UNCHANGED <<geodata_file, lon, lat, at, match_pc, matched,
                   bounds_checked, contains_called, opsVars, extractVars,
                   fetchVars, digestVars, mainVars, mailVars>>

\* matcher.match_neighborhood(lon, lat) by a caller that holds a matcher;
\* iterating over None is a TypeError
CallMatchNeighborhood ==
    /\ matcher = "constructed"
    /\ IF shapes_is_none
       THEN /\ ops < MaxOps
            /\ \E point \in OpPoints :
                  /\ op' = "match_neighborhood"
                  /\ op_args' = point
                  /\ op_ret' = IF MissingCoordinate(point[1], point[2]) THEN PyNone
                               ELSE Raise("TypeError")
            /\ ops' = ops + 1
            /\ UNCHANGED <<items, history, matchVars, constructVars,
                           extractVars, fetchVars, digestVars, mainVars,
                           mailVars>>
       ELSE OpMatchNeighborhood

ConstructNext ==
    \/ NewMatcher
    \/ LoadGeodata
    \/ CallMatchNeighborhood

SpecConstruct == ConstructInit /\ [][ConstructNext]_vars

\* ------------------------------------------------------ generate_digest
\* A timestamp is an ISO date str; the model's dates are the first nine days
\* of one month and a date is parsed to its day number.

LitDatePrefix == <<"2", "0", "2", "4", "-", "0", "1", "-", "0">>
DateOn(day) == PyStr(LitDatePrefix \o <<Digits[day + 1]>>)
NotADate == PyStr(<<"n", "/", "a">>)

\* date_parser.parse(v), as a day number
DateParse(v) ==
    IF v.k # "str" THEN Raise("TypeError")
    ELSE IF Len(v.s) = 10 /\ SubSeq(v.s, 1, 9) = LitDatePrefix /\ IsDigit(v.s[10])
         THEN PyInt(DigitVal(v.s[10]))
         ELSE Raise("ValueError")

\* datetime.now(pytz.UTC), as a day number
Now == 9

\* what a query_arcgis call, or a fetch, does: it raises or it returns rows
Raises == [raises |-> TRUE, rows |-> <<>>]
Returns(rows) == [raises |-> FALSE, rows |-> rows]

\* rows[0][field] if rows else None
MostRecent(rows, field) == IF rows # <<>> THEN rows[1][field] ELSE PyNone

\* the age in days of a timestamp that is truthy, None otherwise
DaysOldOf(parsed) == IF IsRaise(parsed) THEN parsed ELSE PyInt(Now - parsed.n)
DaysOld(most_recent) ==
    IF Truthy(most_recent) THEN DaysOldOf(DateParse(most_recent)) ELSE PyNone

\* except Exception: return None, None, None, None
AllNone ==
    [most_recent_permit |-> PyNone, most_recent_appeal |-> PyNone,
     days_old_permits |-> PyNone, days_old_appeals |-> PyNone]

FreshnessOf(permit, appeal, permit_days, appeal_days) ==
    IF IsRaise(permit_days) \/ IsRaise(appeal_days) THEN AllNone
    ELSE [most_recent_permit |-> permit, most_recent_appeal |-> appeal,
          days_old_permits |-> permit_days, days_old_appeals |-> appeal_days]

\* one try block holds both queries and both age computations
check_data_freshness(permits_q, appeals_q) ==
    IF permits_q.raises \/ appeals_q.raises THEN AllNone
    ELSE FreshnessOf(MostRecent(permits_q.rows, "permitissuedate"),
                     MostRecent(appeals_q.rows, "createddate"),
                     DaysOld(MostRecent(permits_q.rows, "permitissuedate")),
                     DaysOld(MostRecent(appeals_q.rows, "createddate")))

\* the staleness threshold of generate_digest, in days
StaleAfterDays == 3

\* (mutant of IsStale: the threshold day itself counts as stale)
IsStaleAtThreshold(days_old) == days_old.k # "none" /\ days_old.n >= StaleAfterDays

\* days_old is not None and days_old > 3
IsStale(days_old) == days_old.k # "none" /\ days_old.n > StaleAfterDays

\* the two kinds of warning strings, by the stream they name
StaleWarning(stream, most_recent, days_old) ==
    [what |-> "stale", about |-> stream, date |-> most_recent, days |-> days_old.n]
ErrorWarning(stream) ==
    [what |-> "error", about |-> stream, date |-> PyNone, days |-> 0]

StaleWarnings(f) ==
    (IF IsStale(f.days_old_permits)
     THEN <<StaleWarning("permits", f.most_recent_permit, f.days_old_permits)>>
     ELSE <<>>)
    \o (IF IsStale(f.days_old_appeals)
        THEN <<StaleWarning("appeals", f.most_recent_appeal, f.days_old_appeals)>>
        ELSE <<>>)

\* x == y on two dict keys
PyEq(x, y) ==
    IF x.k \in {"int", "float"} /\ y.k \in {"int", "float"} THEN x.n = y.n
    ELSE x = y

\* item.get('council_district') or 'Unknown'
DistrictOf(item) ==
    IF Truthy(Get(item, "council_district", PyNone)) THEN item.council_district
    ELSE Unknown

\* a defaultdict(list) is the sequence of its [key, value] in insertion order
GroupIndex(grouped, key) ==
    LET same == {j \in 1..Len(grouped) : PyEq(grouped[j].key, key)}
    IN  IF same = {} THEN 0 ELSE SetMin(same)

\* (mutant of GroupAppend: the item is put at the head of its group)
GroupPrepend(grouped, j, district, item) ==
    IF j = 0 THEN Append(grouped, [key |-> district, value |-> <<item>>])
    ELSE [grouped EXCEPT ![j].value = <<item>> \o @]

\* grouped[district].append(item), district being at position j or new
GroupAppend(grouped, j, district, item) ==
    IF j = 0 THEN Append(grouped, [key |-> district, value |-> <<item>>])
    ELSE [grouped EXCEPT ![j].value = Append(@, item)]

RECURSIVE GroupFrom(_, _, _)
GroupFrom(grouped, its, n) ==
    IF n > Len(its) THEN grouped
    ELSE GroupFrom(GroupAppend(grouped, GroupIndex(grouped, DistrictOf(its[n])),
                               DistrictOf(its[n]), its[n]),
                   its, n + 1)

group_by_district(its) == GroupFrom(<<>>, its, 1)

Keys(grouped) == [j \in 1..Len(grouped) |-> grouped[j].key]

\* the sort key of every key that is no number
NonNumeric == 999

\* int(x) if x.isdigit() else 999
PermitSortKey(x) ==
    IF x.k # "str" THEN Raise("AttributeError")
    ELSE IF IsDigitStr(x.s) THEN PyIntOf(x) ELSE PyInt(NonNumeric)

\* int(x) if x != 'Unknown' and str(x).isdigit() else 999
AppealSortKey(x) ==
    IF x # Unknown /\ IsDigitStr(PyStrOf(x)) THEN PyIntOf(x) ELSE PyInt(NonNumeric)

Without(seq, j) == SubSeq(seq, 1, j - 1) \o SubSeq(seq, j + 1, Len(seq))
FirstLeast(ks) ==
    SetMin({j \in 1..Len(ks) : \A m \in 1..Len(ks) : ks[j].n <= ks[m].n})

\* sorted(keys, key=...), ks being the sort keys of keys: ascending and stable
RECURSIVE SortedByKey(_, _)
TakeSorted(keys, ks, j) ==
    <<keys[j]>> \o SortedByKey(Without(keys, j), Without(ks, j))
SortedByKey(keys, ks) ==
    IF keys = <<>> THEN <<>> ELSE TakeSorted(keys, ks, FirstLeast(ks))

\* sorted raises what a key function raised, or returns the list
SortedOrRaise(keys, ks) ==
    IF \E j \in 1..Len(ks) : IsRaise(ks[j]) THEN [k |-> "AttributeError", v |-> <<>>]
    ELSE [k |-> "list", v |-> SortedByKey(keys, ks)]

PermitDistricts(grouped) ==
    SortedOrRaise(Keys(grouped), [j \in 1..Len(grouped) |-> PermitSortKey(grouped[j].key)])
AppealDistricts(grouped) ==
    SortedOrRaise(Keys(grouped), [j \in 1..Len(grouped) |-> AppealSortKey(grouped[j].key)])

\* the appeal with the unit count its grounds give, when they give one
SetUnits(appeal, units) ==
    IF Truthy(units) THEN [appeal EXCEPT !.numberofunits = units] ELSE appeal
WithUnits(appeal) ==
    SetUnits(appeal,
             extract_unit_count_from_text(Get(appeal, "appealgrounds", PyStr(<<>>))))

\* units and (isinstance(units, (int, float)) or units.isdigit())
IsCountable(units) ==
    /\ Truthy(units)
    /\ units.k \in {"int", "float"} \/ (units.k = "str" /\ IsDigitStr(units.s))

LitNA == <<"N", "/", "A">>
Project(record, type) ==
    [units |-> PyIntOf(record.numberofunits).n,
     address |-> Get(record, "address", PyStr(LitNA)),
     district |-> Get(record, "council_district", PyStr(LitNA)),
     type |-> type]

Countable(records) ==
    SelectSeq(records, LAMBDA r : IsCountable(Get(r, "numberofunits", PyNone)))
Projects(records, type) ==
    [n \in 1..Len(records) |-> Project(records[n], type)]

\* the pool: the permits, then the appeals
AllProjects(permit_list, appeal_list) ==
    Projects(Countable(permit_list), "by-right permit")
    \o Projects(Countable(appeal_list), "variance application")

\* (mutant of Largest: of several greatest projects the last one is taken)
LastLargest(pool) ==
    pool[SetMax({j \in 1..Len(pool) : \A m \in 1..Len(pool) : pool[m].units <= pool[j].units})]

\* max(all_projects, key=lambda x: x['units'])
Largest(pool) ==
    pool[SetMin({j \in 1..Len(pool) : \A m \in 1..Len(pool) : pool[m].units <= pool[j].units})]

\* the groups in the order of presentation
Section(grouped, districts) ==
    [n \in 1..Len(districts) |-> grouped[GroupIndex(grouped, districts[n])]]

NoHighlight == [units |-> 0, address |-> PyNone, district |-> PyNone, type |-> "none"]

\* what the renderer shows: the warnings, the highlight, the two sections
DigestOf(shown, pool, permit_sections, appeal_sections) ==
    [k |-> "digest", warnings |-> shown,
     largest |-> IF pool # <<>> THEN Largest(pool) ELSE NoHighlight,
     permit_sections |-> permit_sections, appeal_sections |-> appeal_sections]
DigestRaised(e) ==
    [k |-> e, warnings |-> <<>>, largest |-> NoHighlight,
     permit_sections |-> <<>>, appeal_sections |-> <<>>]

\* a record of either stream
DigestRecord(row, district, units, grounds) ==
    [row |-> row, address |-> PyStr(Decimal(row)), council_district |-> district,
     numberofunits |-> units, appealgrounds |-> grounds]

District3 == PyStr(<<"3">>)
MaxPoolRows == 2
MaxGroupRows == 3

FreshDates == {DateOn(4), DateOn(5), DateOn(6), DateOn(8)}
PermitQueries ==
    {Raises, Returns(<<>>)}
    \cup {Returns(<<[permitissuedate |-> v]>>) : v \in {PyNone, NotADate} \cup FreshDates}
AppealQueries ==
    {Raises, Returns(<<>>)}
    \cup {Returns(<<[createddate |-> v]>>) : v \in {PyNone, NotADate} \cup FreshDates}

\* the unit counts get_permits leaves on a permit, and the grounds of an appeal
PoolUnits ==
    {PyInt(8), PyInt(12), PyFloat(12), PyStr(<<"1", "2">>), UnknownMultiFamily}
PoolGrounds == {Absent, PyNone, ScopeEight, DescTwelve}
PoolPermits ==
    {[r \in DOMAIN f |-> DigestRecord(r, District3, f[r], Absent)] :
        f \in UNION {[1..n -> PoolUnits] : n \in 0..MaxPoolRows}}
PoolAppeals ==
    {[r \in DOMAIN f |-> DigestRecord(r, District3, Absent, f[r])] :
        f \in UNION {[1..n -> PoolGrounds] : n \in 0..MaxPoolRows}}

GroupKeys ==
    {Absent, PyNone, PyStr(<<>>), PyStr(<<"1">>), District3, PyStr(<<"1", "0">>),
     PyStr(<<"1", "0", "0", "0">>), PyInt(3)}
GroupPermits ==
    {[r \in DOMAIN f |-> DigestRecord(r, f[r], PyInt(8), Absent)] :
        f \in UNION {[1..n -> GroupKeys] : n \in 0..MaxGroupRows}}
GroupAppeals ==
    {[r \in DOMAIN f |-> DigestRecord(r, f[r], Absent, Absent)] :
        f \in UNION {[1..n -> GroupKeys] : n \in 0..MaxGroupRows}}

OnePermit == <<DigestRecord(1, District3, PyInt(8), Absent)>>
OneAppeal == <<DigestRecord(1, District3, Absent, DescTwelve)>>

DigestInit ==
    /\ \/ /\ permit_query \in PermitQueries
          /\ appeal_query \in AppealQueries
          /\ get_permits_result \in {Raises, Returns(OnePermit)}
          /\ get_appeals_result \in {Raises, Returns(OneAppeal)}
       \/ /\ permit_query = Returns(<<>>)
          /\ appeal_query = Returns(<<>>)
          /\ get_permits_result \in {Raises} \cup {Returns(rows) : rows \in PoolPermits}
          /\ get_appeals_result \in {Returns(rows) : rows \in PoolAppeals}
       \/ /\ permit_query = Returns(<<>>)
          /\ appeal_query = Returns(<<>>)
          /\ \/ /\ get_permits_result \in {Returns(rows) : rows \in GroupPermits}
                /\ get_appeals_result = Returns(<<>>)
             \/ /\ get_permits_result = Returns(<<>>)
                /\ get_appeals_result \in {Returns(rows) : rows \in GroupAppeals}
    /\ freshness = PyNone
    /\ warnings = <<>>
    /\ digest_permits = <<>>
    /\ appeals = <<>>
    /\ fetched = <<>>
    /\ all_projects = <<>>
    /\ grouped_permits = <<>>
    /\ grouped_appeals = <<>>
    /\ digest = Pending
    /\ digest_pc = "freshness"
    /\ ExtractIdle
    /\ FetchIdle
    /\ MatchIdle
    /\ OpsIdle
    /\ ConstructIdle
    /\ MainIdle
    /\ MailIdle

\* most_recent_permit, ... = check_data_freshness()
CheckFreshness ==
    /\ digest_pc = "freshness"
    /\ freshness' = check_data_freshness(permit_query, appeal_query)
    /\ digest_pc' = "staleness"
    /\ UNCHANGED <<permit_query, appeal_query, get_permits_result,
                   get_appeals_result, warnings, digest_permits, appeals,
                   fetched, all_projects, grouped_permits, grouped_appeals,
                   digest, extractVars, fetchVars, matchVars, opsVars,
                   constructVars, mainVars, mailVars>>

\* the two staleness tests, each adding its warning
AddStaleWarnings ==
    /\ digest_pc = "staleness"
    /\ warnings' = warnings \o StaleWarnings(freshness)
    /\ digest_pc' = "get_permits"
    /\ UNCHANGED <<permit_query, appeal_query, get_permits_result,
                   get_appeals_result, freshness, digest_permits, appeals,
                   fetched, all_projects, grouped_permits, grouped_appeals,
                   digest, extractVars, fetchVars, matchVars, opsVars,
                   constructVars, mainVars, mailVars>>

\* (mutant of GetPermits: no except clause, the exception leaves generate_digest)
GetPermitsUncaught ==
    /\ digest_pc = "get_permits"
    /\ fetched' = Append(fetched, "permits")
    /\ IF get_permits_result.raises
       THEN /\ digest' = DigestRaised("ValueError")
            /\ digest_pc' = "raised"
            /\ UNCHANGED digest_permits
       ELSE /\ digest_permits' = get_permits_result.rows
            /\ digest_pc' = "get_appeals"
            /\ UNCHANGED digest
    /\ UNCHANGED <<permit_query, appeal_query, get_permits_result,
                   get_appeals_result, freshness, warnings, appeals,
                   all_projects, grouped_permits, grouped_appeals,
                   extractVars, fetchVars, matchVars, opsVars, constructVars,
                   mainVars, mailVars>>

\* try: permits = get_permits(...) except Exception: a warning, permits = []
GetPermits ==
    /\ digest_pc = "get_permits"
    /\ fetched' = Append(fetched, "permits")
    /\ IF get_permits_result.raises
       THEN /\ warnings' = Append(warnings, ErrorWarning("permits"))
            /\ digest_permits' = <<>>
       ELSE /\ digest_permits' = get_permits_result.rows
            /\ UNCHANGED warnings
    /\ digest_pc' = "get_appeals"
    /\ UNCHANGED <<permit_query, appeal_query, get_permits_result,
                   get_appeals_result, freshness, appeals, all_projects,
                   grouped_permits, grouped_appeals, digest, extractVars,
                   fetchVars, matchVars, opsVars, constructVars, mainVars,
                   mailVars>>

\* try: appeals = get_appeals(...) except Exception: a warning, appeals = []
GetAppeals ==
    /\ digest_pc = "get_appeals"
    /\ fetched' = Append(fetched, "appeals")
    /\ IF get_appeals_result.raises
       THEN /\ warnings' = Append(warnings, ErrorWarning("appeals"))
            /\ appeals' = <<>>
       ELSE /\ appeals' = get_appeals_result.rows
            /\ UNCHANGED warnings
    /\ digest_pc' = "projects"
    /\ UNCHANGED <<permit_query, appeal_query, get_permits_result,
                   get_appeals_result, freshness, digest_permits,
                   all_projects, grouped_permits, grouped_appeals, digest,
                   extractVars, fetchVars, matchVars, opsVars, constructVars,
                   mainVars, mailVars>>

\* the unit counts of the appeals, then the pool of all projects
CollectProjects ==
    /\ digest_pc = "projects"
    /\ \E with_units \in {[n \in 1..Len(appeals) |-> WithUnits(appeals[n])]} :
          /\ appeals' = with_units
          /\ all_projects' = AllProjects(digest_permits, with_units)
    /\ digest_pc' = "render"
    /\ UNCHANGED <<permit_query, appeal_query, get_permits_result,
                   get_appeals_result, freshness, warnings, digest_permits,
                   fetched, grouped_permits, grouped_appeals, digest,
                   extractVars, fetchVars, matchVars, opsVars, constructVars,
                   mainVars, mailVars>>

\* the renderer, given the groups and the district order of each section
Rendered(shown, pool, permit_groups, permit_order, appeal_groups, appeal_order) ==
    IF permit_order.k # "list" THEN DigestRaised(permit_order.k)
    ELSE IF appeal_order.k # "list" THEN DigestRaised(appeal_order.k)
    ELSE DigestOf(shown, pool, Section(permit_groups, permit_order.v),
                  Section(appeal_groups, appeal_order.v))

\* generate_markdown_digest or generate_html_digest: the two sort alike
Render ==
    /\ digest_pc = "render"
    /\ \E permit_groups \in {IF digest_permits # <<>>
                             THEN group_by_district(digest_permits) ELSE <<>>} :
       \E permit_order \in {PermitDistricts(permit_groups)} :
       \E appeal_groups \in {IF appeals # <<>> /\ permit_order.k = "list"
                             THEN group_by_district(appeals) ELSE <<>>} :
       \E appeal_order \in {AppealDistricts(appeal_groups)} :
          /\ grouped_permits' = permit_groups
          /\ grouped_appeals' = appeal_groups
          /\ digest' = Rendered(warnings, all_projects, permit_groups, permit_order,
                                appeal_groups, appeal_order)
          /\ digest_pc' = IF permit_order.k = "list" /\ appeal_order.k = "list"
                          THEN "returned" ELSE "raised"
    /\ UNCHANGED <<permit_query, appeal_query, get_permits_result,
                   get_appeals_result, freshness, warnings, digest_permits,
                   appeals, fetched, all_projects, extractVars, fetchVars,
                   matchVars, opsVars, constructVars, mainVars, mailVars>>

DigestNext ==
    \/ CheckFreshness
    \/ AddStaleWarnings
    \/ GetPermits
    \/ GetAppeals
    \/ CollectProjects
    \/ Render

SpecDigest == DigestInit /\ [][DigestNext]_vars

\* ----------------------------------------------------------------- main
\* Dates are day numbers: main subtracts a whole number of days from now.

\* the default of --days
DefaultDays == 7
\* the greatest --days that is enumerated
MaxDays == 8

\* args.days
ArgsDays(given) == IF given.k = "absent" THEN DefaultDays ELSE given.n

MainInit ==
    /\ argv_days \in {Absent} \cup {PyInt(n) : n \in 0..MaxDays}
    /\ now_day \in {10, 31}
    /\ streams_empty \in SUBSET {"permits", "appeals"}
    /\ start_date = 0
    /\ end_date = 0
    /\ days_back = 0
    /\ fetch_days = <<>>
    /\ last_days_messages = <<>>
    /\ main_pc = "args"
    /\ ExtractIdle
    /\ FetchIdle
    /\ MatchIdle
    /\ OpsIdle
    /\ DigestIdle
    /\ ConstructIdle
    /\ MailIdle

\* end_date = datetime.now(); start_date = end_date - timedelta(days=args.days)
MainDates ==
    /\ main_pc = "args"
    /\ end_date' = now_day
    /\ start_date' = now_day - ArgsDays(argv_days)
    /\ main_pc' = "days_back"
    /\ UNCHANGED <<argv_days, now_day, streams_empty, days_back, fetch_days,
                   last_days_messages, extractVars, fetchVars, matchVars,
                   opsVars, digestVars, constructVars, mailVars>>

\* days_back = (end_date - start_date).days + 1
DaysBack ==
    /\ main_pc = "days_back"
    /\ days_back' = (end_date - start_date) + 1
    /\ main_pc' = "fetch"
    /\ UNCHANGED <<argv_days, now_day, streams_empty, start_date, end_date,
                   fetch_days, last_days_messages, extractVars, fetchVars,
                   matchVars, opsVars, digestVars, constructVars, mailVars>>

\* get_permits(days=days_back, ...) and get_appeals(days=days_back)
MainFetch ==
    /\ main_pc = "fetch"
    /\ fetch_days' = <<[of |-> "get_permits", days |-> days_back],
                       [of |-> "get_appeals", days |-> days_back]>>
    /\ main_pc' = "render"
    /\ UNCHANGED <<argv_days, now_day, streams_empty, start_date, end_date,
                   days_back, last_days_messages, extractVars, fetchVars,
                   matchVars, opsVars, digestVars, constructVars, mailVars>>

\* the renderer's "... found in the last {days_back} days." of an empty stream
MainRender ==
    /\ main_pc = "render"
    /\ last_days_messages' =
           (IF "permits" \in streams_empty
            THEN <<[about |-> "permits", days |-> days_back]>> ELSE <<>>)
           \o (IF "appeals" \in streams_empty
               THEN <<[about |-> "appeals", days |-> days_back]>> ELSE <<>>)
    /\ main_pc' = "done"
    /\ UNCHANGED <<argv_days, now_day, streams_empty, start_date, end_date,
                   days_back, fetch_days, extractVars, fetchVars, matchVars,
                   opsVars, digestVars, constructVars, mailVars>>

MainNext ==
    \/ MainDates
    \/ DaysBack
    \/ MainFetch
    \/ MainRender

SpecMain == MainInit /\ [][MainNext]_vars

\* ------------------------------------------------ ButtondownService
\* buttondown_integration.py. A subscriber is what the Buttondown API lists:
\* an address, a subscriber_type and the metadata, a JSON object holding the
\* preference lists and the frequency.

LitDaily == <<"d", "a", "i", "l", "y">>
LitWeekly == <<"w", "e", "e", "k", "l", "y">>
LitRegular == <<"r", "e", "g", "u", "l", "a", "r">>
LitUnactivated == <<"u", "n", "a", "c", "t", "i", "v", "a", "t", "e", "d">>

Subscriber(email, type, frequency, neighborhoods, districts) ==
    [email |-> email, subscriber_type |-> type,
     metadata |-> [frequency |-> frequency, neighborhoods |-> neighborhoods,
                   districts |-> districts]]

get_subscriber_preferences(subscriber) ==
    [email |-> subscriber.email,
     neighborhoods |-> subscriber.metadata.neighborhoods,
     districts |-> subscriber.metadata.districts,
     frequency |-> Get(subscriber.metadata, "frequency", PyStr(LitWeekly)),
     active |-> subscriber.subscriber_type = PyStr(LitRegular)]

\* a dict of lists is the sequence of its entries in insertion order
KeyIndex(dict, key) ==
    IF \E n \in 1..Len(dict) : dict[n].key = key
    THEN CHOOSE n \in 1..Len(dict) : dict[n].key = key
    ELSE 0

\* if key not in dict: dict[key] = []; dict[key].append(email)
AddEmail(dict, key, email) ==
    IF KeyIndex(dict, key) = 0
    THEN Append(dict, [key |-> key, emails |-> <<email>>])
    ELSE [dict EXCEPT ![KeyIndex(dict, key)].emails = Append(@, email)]

\* the loop over one preference list, from its entry n on
RECURSIVE AddEach(_, _, _, _)
AddEach(dict, keys, email, n) ==
    IF n > Len(keys) THEN dict
    ELSE AddEach(AddEmail(dict, keys[n], email), keys, email, n + 1)

\* one turn of the loop over the subscribers
GroupSubscriber(into, subscriber) ==
    LET prefs == get_subscriber_preferences(subscriber)
    IN  IF ~prefs.active \/ prefs.frequency # PyStr(LitDaily) THEN into
        ELSE IF prefs.neighborhoods = <<>> /\ prefs.districts = <<>>
        THEN [into EXCEPT !.citywide = Append(@, prefs.email)]
        ELSE [into EXCEPT
                 !.neighborhoods = AddEach(@, prefs.neighborhoods, prefs.email, 1),
                 !.districts = AddEach(@, prefs.districts, prefs.email, 1)]

RECURSIVE GroupSubscribersFrom(_, _, _)
GroupSubscribersFrom(into, subs, n) ==
    IF n > Len(subs) THEN into
    ELSE GroupSubscribersFrom(GroupSubscriber(into, subs[n]), subs, n + 1)

group_subscribers_by_preferences(subs) ==
    GroupSubscribersFrom(
        [citywide |-> <<>>, neighborhoods |-> <<>>, districts |-> <<>>],
        subs, 1)

\* a send_email call that Buttondown accepted
SegmentEmail(segment) ==
    [digest |-> "citywide", area |-> <<>>, recipients |-> <<>>,
     segment |-> segment]
RecipientEmail(what, area, email) ==
    [digest |-> what, area |-> area, recipients |-> <<email>>,
     segment |-> ""]

\* send_email: response.raise_for_status() raises on the failing call
SendRaises(posted) == Len(posted) + 1 = failing_send

\* for email in emails: self.send_email(subject, body, recipients=[email])
RECURSIVE SendEach(_, _, _, _, _)
SendEach(posted, emails, what, area, n) ==
    IF n > Len(emails) THEN [sent |-> posted, raised |-> FALSE]
    ELSE IF SendRaises(posted) THEN [sent |-> posted, raised |-> TRUE]
    ELSE SendEach(Append(posted, RecipientEmail(what, area, emails[n])),
                  emails, what, area, n + 1)

\* the most subscribers Buttondown lists
MaxSubscribers == 2

\* the n-th subscriber's address
Address(n) == PyStr(<<Lowers[n], "@">>)

\* active and daily, active and weekly by default, daily but not active
Standings == {<<PyStr(LitRegular), PyStr(LitDaily)>>,
              <<PyStr(LitRegular), Absent>>,
              <<PyStr(LitUnactivated), PyStr(LitDaily)>>}
\* the neighborhoods and the districts a subscriber asks for
Preferences == {<<<<>>, <<>>>>,
                <<<<Fishtown.s>>, <<>>>>,
                <<<<Fishtown.s, Fishtown.s>>, <<>>>>,
                <<<<CenterCity.s>>, <<Three.s>>>>,
                <<<<>>, <<Three.s>>>>}

SubscriberLists ==
    UNION {{[n \in 1..len |-> Subscriber(Address(n), st[n][1], st[n][2],
                                         pr[n][1], pr[n][2])] :
               st \in [1..len -> Standings], pr \in [1..len -> Preferences]} :
           len \in 0..MaxSubscribers}

MailPermits == {<<>>,
                <<Item(1, Absent, Absent, Three, Fishtown)>>,
                <<Item(1, Absent, Absent, Ten, CenterCity)>>}
MailVariances == {<<>>, <<Item(1, Absent, Absent, PyInt(3), Fishtown)>>}

MailInit ==
    /\ subscribers \in SubscriberLists
    /\ mail_permits \in MailPermits
    /\ mail_variances \in MailVariances
    /\ failing_send \in 0..MaxSubscribers
    /\ groups = [citywide |-> <<>>, neighborhoods |-> <<>>, districts |-> <<>>]
    /\ sent = <<>>
    /\ sent_count = 0
    /\ mail_i = 0
    /\ mail_result = PyNone
    /\ mail_pc = "group"
    /\ ExtractIdle
    /\ FetchIdle
    /\ MatchIdle
    /\ OpsIdle
    /\ DigestIdle
    /\ ConstructIdle
    /\ MainIdle

\* groups = self.group_subscribers_by_preferences(); sent_count = 0
MailGroup ==
    /\ mail_pc = "group"
    /\ groups' = group_subscribers_by_preferences(subscribers)
    /\ sent_count' = 0
    /\ mail_pc' = "citywide"
    /\ UNCHANGED <<subscribers, mail_permits, mail_variances, sent, mail_i,
                   failing_send, mail_result, extractVars, fetchVars,
                   matchVars, opsVars, digestVars, constructVars, mainVars>>

\* 1. the citywide digest, one send to the segment
MailCitywide ==
    /\ mail_pc = "citywide"
    /\ IF groups.citywide = <<>>
       THEN /\ mail_pc' = "neighborhoods"
            /\ UNCHANGED <<sent, sent_count>>
       ELSE IF SendRaises(sent)
       THEN /\ mail_pc' = "raised"
            /\ UNCHANGED <<sent, sent_count>>
       ELSE /\ sent' = Append(sent, SegmentEmail("daily-citywide"))
            /\ sent_count' = sent_count + Len(groups.citywide)
            /\ mail_pc' = "neighborhoods"
    /\ mail_i' = 1
    /\ UNCHANGED <<subscribers, mail_permits, mail_variances, groups,
                   failing_send, mail_result, extractVars, fetchVars,
                   matchVars, opsVars, digestVars, constructVars, mainVars>>

\* one turn of either loop over the groups of a dict
MailGroupDigest(what, group, shown_permits, shown_variances) ==
    /\ IF shown_permits = <<>> /\ shown_variances = <<>>
       THEN /\ mail_i' = mail_i + 1
            /\ UNCHANGED <<sent, sent_count, mail_pc>>
       ELSE \E out \in {SendEach(sent, group.emails, what, group.key, 1)} :
                /\ sent' = out.sent
                /\ IF out.raised
                   THEN /\ mail_pc' = "raised"
                        /\ UNCHANGED <<sent_count, mail_i>>
                   ELSE /\ sent_count' = sent_count + Len(group.emails)
                        /\ mail_i' = mail_i + 1
                        /\ UNCHANGED mail_pc
    /\ UNCHANGED <<subscribers, mail_permits, mail_variances, groups,
                   failing_send, mail_result, extractVars, fetchVars,
                   matchVars, opsVars, digestVars, constructVars, mainVars>>

\* 2. one turn of the loop over groups['neighborhoods'].items()
MailNeighborhood ==
    /\ mail_pc = "neighborhoods"
    /\ mail_i <= Len(groups.neighborhoods)
    /\ \E group \in {groups.neighborhoods[mail_i]} :
           MailGroupDigest("neighborhood", group,
               filter_by_neighborhoods(mail_permits, Request(<<group.key>>)),
               filter_by_neighborhoods(mail_variances, Request(<<group.key>>)))

\* the loop over the neighborhoods is exhausted
MailNeighborhoodsDone ==
    /\ mail_pc = "neighborhoods"
    /\ mail_i > Len(groups.neighborhoods)
    /\ mail_pc' = "districts"
    /\ mail_i' = 1
    /\ UNCHANGED <<subscribers, mail_permits, mail_variances, groups, sent,
                   sent_count, failing_send, mail_result, extractVars,
                   fetchVars, matchVars, opsVars, digestVars, constructVars,
                   mainVars>>

\* 3. one turn of the loop over groups['districts'].items()
MailDistrict ==
    /\ mail_pc = "districts"
    /\ mail_i <= Len(groups.districts)
    /\ \E group \in {groups.districts[mail_i]} :
           MailGroupDigest("district", group,
               filter_by_districts(mail_permits, Request(<<group.key>>)),
               filter_by_districts(mail_variances, Request(<<group.key>>)))

\* return sent_count
MailReturn ==
    /\ mail_pc = "districts"
    /\ mail_i > Len(groups.districts)
    /\ mail_result' = PyInt(sent_count)
    /\ mail_pc' = "done"
    /\ UNCHANGED <<subscribers, mail_permits, mail_variances, groups, sent,
                   sent_count, mail_i, failing_send, extractVars, fetchVars,
                   matchVars, opsVars, digestVars, constructVars, mainVars>>

MailNext ==
    \/ MailGroup
    \/ MailCitywide
    \/ MailNeighborhood
    \/ MailNeighborhoodsDone
    \/ MailDistrict
    \/ MailReturn

SpecMail == MailInit /\ [][MailNext]_vars

\* ------------------------------------------------------------ properties
\* The deduplication is lines 181-197 of get_permits and 269-284 of
\* get_appeals. Its input is the list the loop runs over, its output the list
\* of the dict's values.

DedupInput == IF kind = "permits" THEN ChangeOfUseFilter(all_permits) ELSE all_permits
DedupOutput == IF kind = "permits" THEN permits ELSE returned
\* the state right after the deduplication
DedupDone ==
    \/ kind = "permits" /\ pc = "enrich" /\ i = 1
    \/ kind = "appeals" /\ pc = "returned"
RecId(r) == Get(r, IdField(kind), PyNone)
\* the timestamp string of a record, '' when it has none
RecDate(r) == Get(r, DateField(kind), PyStr(<<>>)).s
HasId(r) == Truthy(RecId(r))
\* the positions of the input records that share the identifier of r
Sharing(input, r) == {b \in 1..Len(input) : RecId(input[b]) = RecId(r)}
\* those of them whose timestamp no other of them exceeds
Latest(input, r) ==
    {b \in Sharing(input, r) :
        \A c \in Sharing(input, r) : ~StrGT(RecDate(input[c]), RecDate(input[b]))}

\* C1: after the deduplication of get_permits and of get_appeals, no two
\* output records share an identifier, every identifier of the input has a
\* surviving record, that record is one of the input records with this
\* identifier, and its timestamp string is >= that of every input record sharing
\* the identifier.
C1_OnePerIdentifierWithMaxTimestamp ==
    DedupDone =>
      \E input \in {DedupInput} : \E output \in {DedupOutput} :
        /\ \A a, b \in 1..Len(output) :
              a # b => RecId(output[a]) # RecId(output[b])
        /\ \A b \in 1..Len(input) :
              HasId(input[b]) => \E a \in 1..Len(output) : RecId(output[a]) = RecId(input[b])
        /\ \A a \in 1..Len(output) :
              /\ \E b \in Sharing(input, output[a]) : input[b] = output[a]
              /\ \A b \in Sharing(input, output[a]) :
                    ~StrGT(RecDate(input[b]), RecDate(output[a]))

\* a later duplicate with a greater timestamp has replaced an earlier one
C1_Witness ==
    /\ DedupDone
    /\ \E input \in {DedupInput} : \E output \in {DedupOutput} :
         \E a, b \in 1..Len(input) :
            /\ a < b
            /\ HasId(input[a])
            /\ RecId(input[a]) = RecId(input[b])
            /\ StrGT(RecDate(input[b]), RecDate(input[a]))
            /\ \E o \in 1..Len(output) : output[o] = input[b]

\* C2 (as claimed): every input record without an identifier (absent or empty)
\* is in the output of the deduplication, so k of them in give k of them out.
C2_IdentifierLessPassedThrough ==
    DedupDone =>
      \E input \in {DedupInput} : \E output \in {DedupOutput} :
        \A b \in 1..Len(input) :
           ~HasId(input[b]) => \E a \in 1..Len(output) : output[a] = input[b]

\* C3 (as claimed): when the records sharing an identifier with the maximal
\* timestamp are several, the one that is last in input order survives.
C3_LastSeenWinsOnTie ==
    DedupDone =>
      \E input \in {DedupInput} : \E output \in {DedupOutput} :
        \A a \in 1..Len(output) :
           (/\ Cardinality(Latest(input, output[a])) >= 2
            /\ \A b \in Latest(input, output[a]) :
                  input[b][DateField(kind)].k = "str")
           => output[a] = input[SetMax(Latest(input, output[a]))]

\* C3 (amended): when the records sharing an identifier with the maximal
\* timestamp are several, the one that is first in input order survives: a
\* later record replaces the kept one only when its timestamp is strictly
\* greater.
C3_FirstSeenWinsOnTie ==
    DedupDone =>
      \E input \in {DedupInput} : \E output \in {DedupOutput} :
        \A a \in 1..Len(output) :
           output[a] = input[SetMin(Latest(input, output[a]))]

\* two records share an identifier and the maximal timestamp, after an older one
C3_Witness ==
    /\ DedupDone
    /\ \E input \in {DedupInput} : \E output \in {DedupOutput} :
         \E a \in 1..Len(output) :
            /\ Cardinality(Latest(input, output[a])) >= 2
            /\ Cardinality(Sharing(input, output[a])) >= 3
            /\ RecDate(output[a]) # <<>>

\* The enrichment is the loop of lines 199-241 of get_permits. Raw is the
\* record as it was fetched, Enriched the positions of permits the loop has
\* completed.

Enriched ==
    IF kind # "permits" THEN {}
    ELSE IF pc = "returned" THEN 1..Len(permits)
    ELSE IF pc \in {"enrich", "enrich_raised"} THEN 1..(i - 1)
    ELSE {}
RawUnits(r) == all_permits[r.row].numberofunits
\* the narratives extract_unit_count_from_text was called on for a row
CallFields(row) ==
    [c \in 1..Len(SelectSeq(calls, LAMBDA x : x.row = row)) |->
        SelectSeq(calls, LAMBDA x : x.row = row)[c].field]
PrimaryCount(r) == extract_unit_count_from_text(Get(r, "approvedscopeofwork", PyNone))
SecondaryCount(r) == extract_unit_count_from_text(Get(r, "permitdescription", PyNone))

\* C4: a permit whose numberofunits field is present and non-zero gets
\* units_source = 'field' and numberofunits = int(field), and
\* extract_unit_count_from_text is not called for it, whatever its narratives
\* hold.
C4_FieldIsAuthoritative ==
    /\ \A idx \in Enriched :
          Truthy(RawUnits(permits[idx])) =>
             /\ permits[idx].units_source = "field"
             /\ permits[idx].numberofunits =
                    [k |-> "int", n |-> RawUnits(permits[idx]).n, s |-> <<>>]
    /\ \A c \in 1..Len(calls) :
          ~Truthy(all_permits[calls[c].row].numberofunits)

\* a permit with the field 12.0 and a narrative that says 8 units is enriched
C4_Witness ==
    \E idx \in Enriched :
       /\ RawUnits(permits[idx]) = PyFloat(12)
       /\ permits[idx].approvedscopeofwork = ScopeEight
       /\ permits[idx].numberofunits = PyInt(12)

\* C5: for a permit whose unit field is absent or falsy, the extractor is
\* called on approvedscopeofwork first, and on permitdescription only after
\* that and only if the first call gave nothing; if either gives a count,
\* numberofunits is that count (the first's when the first gives one) and
\* units_source = 'extracted'.
C5_PrimaryThenSecondary ==
    /\ \A row \in 1..Len(all_permits) :
          CallFields(row) \in {<<>>, <<"approvedscopeofwork">>,
                               <<"approvedscopeofwork", "permitdescription">>}
    /\ \A idx \in Enriched :
          ~Truthy(RawUnits(permits[idx])) =>
             \E first \in {PrimaryCount(permits[idx])} :
             \E second \in {SecondaryCount(permits[idx])} :
             \E fields \in {CallFields(permits[idx].row)} :
                /\ fields # <<>>
                /\ Len(fields) = 2 => ~Truthy(first)
                /\ Truthy(first) =>
                      /\ permits[idx].numberofunits = first
                      /\ permits[idx].units_source = "extracted"
                /\ (~Truthy(first) /\ Truthy(second)) =>
                      /\ Len(fields) = 2
                      /\ permits[idx].numberofunits = second
                      /\ permits[idx].units_source = "extracted"

\* the first narrative gave nothing and the description gave 12
C5_Witness ==
    \E idx \in Enriched :
       /\ ~Truthy(RawUnits(permits[idx]))
       /\ permits[idx].approvedscopeofwork = ScopeHome
       /\ permits[idx].permitdescription = DescTwelve
       /\ permits[idx].numberofunits = PyInt(12)
       /\ permits[idx].units_source = "extracted"

\* the positions the enrichment loop has reached: those it completed, and the
\* one it was at when an exception left it
Reached ==
    Enriched \cup (IF kind = "permits" /\ pc = "enrich_raised" THEN {i} ELSE {})
NarrativeText(v) == IF v.k = "str" THEN v.s ELSE <<>>

\* C6 (as claimed): a permit with no usable unit field, on both narratives of
\* which the extraction fails, gets units_source = 'zoning_multifamily' and the
\* sentinel 'Unknown (Multi-Family)' if its number starts with 'ZP-' and its
\* first narrative contains 'multi-family' in any case, and otherwise gets
\* units_source = 'unknown' and no unit count.
C6_ZoningMultiFamilyOrUnknown ==
    \A idx \in Reached :
       (/\ ~Truthy(RawUnits(permits[idx]))
        /\ ~Truthy(PrimaryCount(permits[idx]))
        /\ ~Truthy(SecondaryCount(permits[idx])))
       => IF /\ StartsWith(permits[idx].permitnumber.s, LitZP)
             /\ Contains(Lower(NarrativeText(permits[idx].approvedscopeofwork)),
                         LitMultiFamily)
          THEN /\ permits[idx].units_source = "zoning_multifamily"
               /\ permits[idx].numberofunits = UnknownMultiFamily
          ELSE /\ permits[idx].units_source = "unknown"
               /\ ~Truthy(permits[idx].numberofunits)

\* the unit count of an enriched record is the sentinel, or a known integer
\* that meets the threshold
Qualifies(r) ==
    \/ r.numberofunits = UnknownMultiFamily
    \/ /\ r.units_source \in {"field", "extracted"}
       /\ r.numberofunits.k = "int"
       /\ r.numberofunits.n >= min_units

\* C7: get_permits returns exactly the enriched records whose unit count is
\* the sentinel or a known integer n >= min_units, in their order; a record
\* without unit count is returned for no threshold; the record whose narrative
\* says "8-unit apartment building" is returned for min_units = 5 and is not for
\* min_units = 10.
C7_ThresholdFilter ==
    (kind = "permits" /\ pc = "returned") =>
       /\ returned = SelectSeq(permits, Qualifies)
       /\ \A idx \in 1..Len(permits) :
             permits[idx].units_source = "unknown" =>
                \A a \in 1..Len(returned) : returned[a] # permits[idx]
       /\ \A idx \in 1..Len(permits) :
             (/\ ~Truthy(RawUnits(permits[idx]))
              /\ permits[idx].approvedscopeofwork = ScopeEight) =>
                /\ min_units = 5 => \E a \in 1..Len(returned) : returned[a] = permits[idx]
                /\ min_units = 10 => \A a \in 1..Len(returned) : returned[a] # permits[idx]

\* with the threshold 8, a sentinel record and a record of 8 units are returned
\* and a record without unit count is not
C7_Witness ==
    /\ kind = "permits" /\ pc = "returned" /\ min_units = 8
    /\ \E a \in 1..Len(returned) : returned[a].numberofunits = PyInt(8)
    /\ Len(returned) < Len(permits)

C7_WitnessSentinel ==
    /\ kind = "permits" /\ pc = "returned" /\ min_units = 10
    /\ Len(permits) = 2 /\ Len(returned) = 1
    /\ returned[1].numberofunits = UnknownMultiFamily
    /\ permits[2].numberofunits = PyInt(8)

\* the numbers the three patterns find in a lower-cased text
Candidates(text_lower) ==
    Range(pattern1(text_lower)) \cup Range(pattern2(text_lower))
        \cup Range(pattern3(text_lower, 1))

\* C8: for a non-empty text, extract_unit_count_from_text returns the greatest
\* of the numbers its three patterns find, and None when they find none;
\* 'single family home' gives 1 and 'requesting a 12-unit multi-family
\* dwelling' gives 12.
C8_MaxOfCandidates ==
    (ret # Pending /\ text.k = "str" /\ text.s # <<>>) =>
       /\ \E c \in {Candidates(Lower(text.s))} :
             ret = IF c = {} THEN PyNone ELSE PyInt(SetMax(c))
       /\ text.s = SingleFamilyHome => ret = PyInt(1)
       /\ text.s = Requesting12Unit => ret = PyInt(12)

\* a text in which the patterns find several numbers, the greatest returned
C8_Witness ==
    /\ ret # Pending /\ text.k = "str"
    /\ \E c \in {Candidates(Lower(text.s))} :
          Cardinality(c) >= 2 /\ ret = PyInt(SetMax(c))

C10_MissingCoordinateGivesNone ==
    (match_pc # "idle" /\ (~Truthy(lon) \/ ~Truthy(lat))) =>
       /\ bounds_checked = 0
       /\ contains_called = 0
       /\ match_pc \in {"guard", "returned"}
       /\ match_pc = "returned" => matched = PyNone

\* the call returned None for the longitude 0 although a loaded polygon
\* contains the point
C10_Witness ==
    /\ match_pc = "returned"
    /\ lon = PyInt(0) /\ lat = PyInt(1)
    /\ \E n \in 1..Len(neighborhood_shapes) :
          GeomContains(neighborhood_shapes[n].geometry, 0, 1)
    /\ matched = PyNone

\* the polygons of the list that contain the point of the call
Containing ==
    {n \in 1..Len(neighborhood_shapes) :
        GeomContains(neighborhood_shapes[n].geometry, lon.n, lat.n)}
\* the polygons of the list in whose bounding box the point of the call is
InBox ==
    {n \in 1..Len(neighborhood_shapes) :
        /\ neighborhood_shapes[n].bounds[1] <= lon.n
        /\ lon.n <= neighborhood_shapes[n].bounds[3]
        /\ neighborhood_shapes[n].bounds[2] <= lat.n
        /\ lat.n <= neighborhood_shapes[n].bounds[4]}
MatchReturned == match_pc = "returned" /\ Truthy(lon) /\ Truthy(lat)

\* C11: for coordinates that are not missing, match_neighborhood returns the
\* name of the first polygon, in load order, that contains the point, and None
\* if no polygon contains it.
C11_FirstContainingPolygon ==
    MatchReturned =>
       matched = IF Containing = {} THEN PyNone
                 ELSE neighborhood_shapes[SetMin(Containing)].name

\* two polygons of different names contain the point; the earlier was returned
C11_Witness ==
    /\ MatchReturned
    /\ Cardinality({neighborhood_shapes[n].name : n \in Containing}) >= 2
    /\ matched = neighborhood_shapes[SetMin(Containing)].name

\* C12: geometry.contains is called on a polygon only when the point has just
\* passed the bounding-box test of that polygon; when the call returns, the
\* polygons tested are those up to the first that contains the point (all of
\* them if none does), and contains was called once for each of these in
\* whose bounding box the point is: not at all if it is in none.
C12_ContainsAfterBounds ==
    /\ [][contains_called' # contains_called =>
             /\ match_pc = "contains"
             /\ bounds_checked = at
             /\ at \in InBox
             /\ contains_called' = contains_called + 1]_vars
    /\ [](MatchReturned =>
             /\ bounds_checked = IF Containing = {} THEN Len(neighborhood_shapes)
                                 ELSE SetMin(Containing)
             /\ contains_called = Cardinality(InBox \cap (1..bounds_checked))
             /\ InBox = {} => (contains_called = 0 /\ matched = PyNone))

\* the point is outside every bounding box of a list of two polygons
C12_Witness ==
    /\ MatchReturned
    /\ Len(neighborhood_shapes) = 2
    /\ InBox = {}
    /\ bounds_checked = 2 /\ contains_called = 0 /\ matched = PyNone

\* the point passed a bounding box and the polygon did not contain it
C12_WitnessBorder ==
    /\ MatchReturned
    /\ contains_called >= 1
    /\ Containing = {}

\* C13: no operation of a GeographicMatcher changes neighborhood_shapes, and
\* two match_neighborhood calls with the same coordinates return the same,
\* whatever was called between them.
C13_PolygonsNeverChange ==
    /\ [][neighborhood_shapes' = neighborhood_shapes]_vars
    /\ [](\A a \in history : \A b \in history :
             (a.lon = b.lon /\ a.lat = b.lat) => a.name = b.name)

\* the point (1, 1) was matched before and after other operations, one of them
\* enrich_items, and a polygon was found for it
C13_Witness ==
    /\ ops = 3
    /\ op = "match_neighborhood"
    /\ op_args = <<PyInt(1), PyInt(1)>>
    /\ op_ret = Fishtown
    /\ history = {[lon |-> PyInt(1), lat |-> PyInt(1), name |-> Fishtown]}
    /\ Len(items) >= 1
    /\ items[1].neighborhood # Absent

\* 'citywide' is in the requested list, in whatever letter case
AsksCitywide == \E n \in 1..Len(op_args.v) : Lower(op_args.v[n]) = LitCitywide
\* the neighborhood of the record, or its district as a string, is requested
IsRequested(item) ==
    IF op = "filter_by_neighborhoods"
    THEN /\ item.neighborhood.k = "str"
         /\ item.neighborhood.s \in Range(op_args.v)
    ELSE PyStrOf(Get(item, "council_district", PyNone)) \in Range(op_args.v)
FilterCalled == op \in {"filter_by_neighborhoods", "filter_by_districts"}

\* C14 (as claimed): the filters return the list as it is when 'citywide', in
\* any letter case, is requested; for every other requested list they return
\* the records whose neighborhood, or whose council_district as a string, is
\* in the requested list, in their order.
C14_CitywideOrMembers ==
    (FilterCalled /\ op_args.k = "list") =>
       op_ret = IF AsksCitywide THEN items ELSE SelectSeq(items, IsRequested)

\* C14 (amended): the filters return the list as it is when nothing is
\* requested (None or an empty list) or 'citywide', in any letter case, is;
\* for every other requested list they return the records whose neighborhood,
\* or whose council_district as a string, is in the requested list, in their
\* order.
C14_NothingOrCitywideOrMembers ==
    FilterCalled =>
       op_ret = IF op_args.k = "none" \/ op_args.v = <<>> \/ AsksCitywide
                THEN items
                ELSE SelectSeq(items, IsRequested)

\* filter_by_neighborhoods, called with an empty list, returned two records
C14_Witness ==
    /\ op = "filter_by_neighborhoods"
    /\ op_args = Request(<<>>)
    /\ Len(items) = 2
    /\ op_ret = items

\* filter_by_districts kept one record of two for the requested '3'
C14_WitnessMembers ==
    /\ op = "filter_by_districts"
    /\ op_args = Request(<<Three.s>>)
    /\ Len(items) = 2 /\ Len(op_ret) = 1
    /\ op_ret[1].council_district = PyInt(3)

\* the key the grouping is to use: the council_district, or 'Unknown' when
\* the field is missing or empty
StatedKey(item) ==
    IF item.council_district.k \in {"absent", "none"} \/ item.council_district = PyStr(<<>>)
    THEN Unknown
    ELSE item.council_district

\* how many times a record occurs in the groups
Occurrences(grouped, item) ==
    Cardinality({<<j, m>> \in (1..Len(grouped)) \X (1..Len(grouped) + MaxGroupRows) :
                    m <= Len(grouped[j].value) /\ grouped[j].value[m] = item})

IsGrouping(grouped, its) ==
    /\ \A n \in 1..Len(its) : Occurrences(grouped, its[n]) = 1
    /\ \A j \in 1..Len(grouped) :
          grouped[j].value = SelectSeq(its, LAMBDA item : StatedKey(item) = grouped[j].key)
    /\ \A j, m \in 1..Len(grouped) : grouped[j].key = grouped[m].key => j = m

DigestEnded == digest_pc \in {"returned", "raised"}

ParsesAsInteger(key) == key.k = "int" \/ (key.k = "str" /\ IsDigitStr(key.s))
NumericFirstAscending(sections) ==
    \A a, b \in 1..Len(sections) :
        a < b =>
            /\ ParsesAsInteger(sections[b].key) => ParsesAsInteger(sections[a].key)
            /\ (ParsesAsInteger(sections[a].key) /\ ParsesAsInteger(sections[b].key)) =>
                   PyIntOf(sections[a].key).n <= PyIntOf(sections[b].key).n

\* C16: in the permit section and in the appeal section of a digest the
\* groups of the keys that parse as integers come first, by ascending value,
\* and the groups of every other key come after them.
C16_NumericKeysFirstAscending ==
    digest_pc = "returned" =>
        /\ NumericFirstAscending(digest.permit_sections)
        /\ NumericFirstAscending(digest.appeal_sections)

\* the known integer unit count of a record, 0 when it has none
KnownCount(record) ==
    CASE record.numberofunits.k \in {"int", "float"} -> record.numberofunits.n
      [] record.numberofunits.k = "str" /\ IsDigitStr(record.numberofunits.s) ->
             DigitsValue(record.numberofunits.s, 1, Len(record.numberofunits.s) + 1)
      [] OTHER -> 0

Tagged(records, type) ==
    [n \in 1..Len(records) |->
        [type |-> type, address |-> records[n].address, count |-> KnownCount(records[n])]]

\* the permits, then the appeals, that have a known count
StatedPool ==
    SelectSeq(Tagged(digest_permits, "by-right permit")
              \o Tagged(appeals, "variance application"),
              LAMBDA r : r.count > 0)

SameProject(stated, project) ==
    /\ project.type = stated.type
    /\ project.address = stated.address
    /\ project.units = stated.count

IsFirstGreatest(pool, largest) ==
    IF pool = <<>> THEN largest = NoHighlight
    ELSE \E j \in 1..Len(pool) :
            /\ SameProject(pool[j], largest)
            /\ \A m \in 1..Len(pool) : pool[m].count <= pool[j].count
            /\ \A m \in 1..(j - 1) : pool[m].count < pool[j].count

\* C17: the pool holds, permits first and appeals after, exactly the records
\* with a known integer unit count; the digest's largest project is the first
\* record of the pool with the greatest count, and there is no highlight when
\* the pool is empty.
C17_LargestIsFirstGreatest ==
    digest_pc = "returned" =>
        \E pool \in {StatedPool} :
            /\ Len(all_projects) = Len(pool)
            /\ \A n \in 1..Len(pool) : SameProject(pool[n], all_projects[n])
            /\ IsFirstGreatest(pool, digest.largest)

\* a permit and an appeal share the greatest count, a permit with the
\* multi-family sentinel is left out, and the permit is the highlight
C17_Witness ==
    /\ digest_pc = "returned"
    /\ \E n \in 1..Len(digest_permits) : digest_permits[n].numberofunits = UnknownMultiFamily
    /\ \E n \in 1..Len(appeals) : appeals[n].numberofunits = PyInt(12)
    /\ digest.largest.units = 12
    /\ digest.largest.type = "by-right permit"

\* records were fetched, none has a known count, and no highlight is shown
C17_WitnessEmptyPool ==
    /\ digest_pc = "returned"
    /\ digest_permits # <<>>
    /\ appeals # <<>>
    /\ all_projects = <<>>
    /\ digest.largest = NoHighlight

\* the query returned a row that holds a date
HasDatedRow(query, field) ==
    /\ ~query.raises
    /\ query.rows # <<>>
    /\ ~IsRaise(DateParse(query.rows[1][field]))

FreshnessChecked == digest_pc \notin {"idle", "freshness"}

\* C18: check_data_freshness reports the two streams independently: when the
\* permit query returned a dated row, the permit timestamp and the permit age
\* are returned whatever the appeal query did, and the same holds for the
\* appeal fields.
C18_FieldsIndependent ==
    FreshnessChecked =>
        /\ HasDatedRow(permit_query, "permitissuedate") =>
               /\ freshness.most_recent_permit = permit_query.rows[1].permitissuedate
               /\ freshness.days_old_permits =
                      PyInt(Now - DateParse(permit_query.rows[1].permitissuedate).n)
        /\ HasDatedRow(appeal_query, "createddate") =>
               /\ freshness.most_recent_appeal = appeal_query.rows[1].createddate
               /\ freshness.days_old_appeals =
                      PyInt(Now - DateParse(appeal_query.rows[1].createddate).n)

\* the warnings of one kind about one stream
WarningsAbout(list, what, stream) ==
    SelectSeq(list, LAMBDA w : w.what = what /\ w.about = stream)

\* how many staleness warnings an age calls for
StaleCount(days_old) ==
    IF days_old.k = "int" /\ days_old.n > StaleAfterDays THEN 1 ELSE 0

StalenessJudged == digest_pc \notin {"idle", "freshness", "staleness"}

\* C19: generate_digest adds exactly one staleness warning for a stream
\* whose age exceeds 3 days and none for an age of 3 days or less or an
\* unknown age, each stream on its own; a run that warned of stale data still
\* returns a digest, which shows the warning.
C19_OneWarningPerStaleStream ==
    /\ StalenessJudged =>
          /\ Len(WarningsAbout(warnings, "stale", "permits")) =
                 StaleCount(freshness.days_old_permits)
          /\ Len(WarningsAbout(warnings, "stale", "appeals")) =
                 StaleCount(freshness.days_old_appeals)
    /\ (DigestEnded /\ \E n \in 1..Len(warnings) : warnings[n].what = "stale") =>
          /\ digest_pc = "returned"
          /\ digest.warnings = warnings

\* permits 5 days old and appeals 1 day old: one warning, about permits
C19_Witness ==
    /\ digest_pc = "returned"
    /\ freshness.days_old_permits = PyInt(5)
    /\ freshness.days_old_appeals = PyInt(1)
    /\ WarningsAbout(digest.warnings, "stale", "permits") =
           <<StaleWarning("permits", DateOn(4), PyInt(5))>>
    /\ WarningsAbout(digest.warnings, "stale", "appeals") = <<>>

\* an age of exactly 3 days gives no warning
C19_WitnessThreshold ==
    /\ digest_pc = "returned"
    /\ freshness.days_old_permits = PyInt(3)
    /\ freshness.days_old_appeals = PyInt(4)
    /\ WarningsAbout(digest.warnings, "stale", "permits") = <<>>
    /\ Len(WarningsAbout(digest.warnings, "stale", "appeals")) = 1

\* every record of the list is shown in a group of the section
AllShown(list, sections) ==
    \A n \in 1..Len(list) :
        \E j \in 1..Len(sections) :
            \E m \in 1..Len(sections[j].value) : sections[j].value[m] = list[n]

\* what a run whose fetch of one stream did, or did not, raise ends with
FetchOutcome(result, stream, list, sections) ==
    IF result.raises
    THEN /\ list = <<>>
         /\ Len(WarningsAbout(warnings, "error", stream)) = 1
    ELSE /\ Len(list) = Len(result.rows)
         /\ WarningsAbout(warnings, "error", stream) = <<>>
         /\ AllShown(list, sections)

\* C20: a fetch that fails does not abort generate_digest: the list of the
\* failing stream is empty, one warning about it follows the staleness
\* warnings, the other stream is fetched and shown, and a digest is returned.
C20_FetchFailureDegrades ==
    (DigestEnded /\ (get_permits_result.raises \/ get_appeals_result.raises)) =>
        /\ digest_pc = "returned"
        /\ digest.k = "digest"
        /\ digest.warnings = warnings
        /\ fetched = <<"permits", "appeals">>
        /\ FetchOutcome(get_permits_result, "permits", digest_permits, digest.permit_sections)
        /\ FetchOutcome(get_appeals_result, "appeals", appeals, digest.appeal_sections)
        /\ \A a, b \in 1..Len(warnings) :
               (a < b /\ warnings[a].what = "error") => warnings[b].what = "error"

\* both streams are stale, the permit fetch failed, the appeals are shown
C20_Witness ==
    /\ digest_pc = "returned"
    /\ get_permits_result.raises
    /\ ~get_appeals_result.raises
    /\ Len(digest.warnings) = 3
    /\ digest.warnings[3] = ErrorWarning("permits")
    /\ digest.permit_sections = <<>>
    /\ digest.appeal_sections # <<>>

\* the appeal fetch failed, the permits are shown
C20_WitnessAppeals ==
    /\ digest_pc = "returned"
    /\ ~get_permits_result.raises
    /\ get_appeals_result.raises
    /\ digest.warnings = <<ErrorWarning("appeals")>>
    /\ digest.permit_sections # <<>>
    /\ digest.appeal_sections = <<>>

\* C21: constructing a GeographicMatcher without the boundary file fails in
\* the constructor with FileNotFoundError; a matcher that was constructed has
\* its polygon list loaded from the file, and match_neighborhood is only ever
\* called on such a matcher.
C21_NoMatcherWithoutPolygons ==
    /\ (matcher \in {"constructed", "failed"} /\ ~geodata_file.exists) =>
          (matcher = "failed" /\ load_exc = "FileNotFoundError")
    /\ matcher = "constructed" =>
          /\ ~shapes_is_none
          /\ Len(neighborhood_shapes) = Len(geodata_file.features)
    /\ op = "match_neighborhood" => (matcher = "constructed" /\ ~IsRaise(op_ret))

\* the file is missing and the constructor raised
C21_Witness ==
    /\ ~geodata_file.exists
    /\ matcher = "failed"
    /\ load_exc = "FileNotFoundError"
    /\ op = "idle"

\* the file is there, the matcher was constructed and has matched a point
C21_WitnessConstructed ==
    /\ matcher = "constructed"
    /\ Len(neighborhood_shapes) = 2
    /\ op = "match_neighborhood"
    /\ op_ret = Fishtown

\* a coordinate that is missing from the record or None
CoordinateAbsent(item) ==
    \/ item.geocode_x.k \in {"absent", "none"}
    \/ item.geocode_y.k \in {"absent", "none"}

\* the record with nothing but a neighborhood attached
WithNeighborhood(item, name) ==
    [row |-> item.row, geocode_x |-> item.geocode_x, geocode_y |-> item.geocode_y,
     council_district |-> item.council_district, neighborhood |-> name]

EnrichedAsStated(shapes, before, after) ==
    /\ Len(after) = Len(before)
    /\ \A n \in 1..Len(before) :
          after[n] = WithNeighborhood(before[n],
                         IF CoordinateAbsent(before[n]) THEN PyNone
                         ELSE match_neighborhood(shapes, before[n].geocode_x,
                                                 before[n].geocode_y))

\* C22: enrich_items returns the records it was given, in their order, each
\* with the matcher's result for its coordinates as neighborhood, or None when
\* a coordinate is absent, and with every other field as it was.
C22_EnrichAttachesOnlyNeighborhood ==
    [][op' = "enrich_items" =>
          /\ EnrichedAsStated(neighborhood_shapes, items, items')
          /\ op_ret' = items']_vars

\* an enrichment matched one record and left one without coordinates unset
C22_Witness ==
    /\ op = "enrich_items"
    /\ Len(items) = 2
    /\ items[1].neighborhood = Fishtown
    /\ items[2].geocode_x = Absent
    /\ items[2].neighborhood = PyNone

\* a field that is missing from the record or null
MissingOrNull(v) == v.k \in {"absent", "none"}

\* C23: for a permit whose unit field is absent and whose two narratives are
\* missing or null, the enrichment completes without raising and sets
\* units_source = 'unknown'.
C23_AbsentDataTolerated ==
    \A idx \in Reached :
       (/\ MissingOrNull(RawUnits(permits[idx]))
        /\ MissingOrNull(permits[idx].approvedscopeofwork)
        /\ MissingOrNull(permits[idx].permitdescription))
       => /\ idx \in Enriched
          /\ permits[idx].units_source = "unknown"

\* the word occurs as a whole word and a keyword occurs anywhere after it
WordThenKeyword(t, word) ==
    \E p \in 1..Len(t) :
        /\ AtLit(t, p, word)
        /\ (p = 1 \/ ~IsWord(t[p - 1]))
        /\ WordEndsAt(t, p + Len(word))
        /\ \E q \in (p + Len(word))..Len(t) :
              AtLit(t, q, LitFamily) \/ AtLit(t, q, LitDwelling) \/ AtLit(t, q, LitUnit)

\* C24: whenever a word of the lexicon occurs in the text as a whole word and
\* 'family', 'dwelling' or 'unit' occurs anywhere later, line breaks or other
\* text between them included, the word's value is a candidate, so the
\* extractor returns a count that is at least that value.
C24_WordNumberThenKeywordAnywhere ==
    (ret # Pending /\ text.k = "str") =>
        \A w \in 1..Len(family_words) :
            WordThenKeyword(Lower(text.s), family_words[w][1]) =>
                (ret.k = "int" /\ ret.n >= family_words[w][2])

\* the N of --days N, or of its default
LookBack == ArgsDays(argv_days)

\* C25: a run of main with --days N calls get_permits and get_appeals with a
\* look-back of exactly N days, and the "in the last N days" messages of the
\* digest say N.
C25_LookBackIsDaysArgument ==
    main_pc = "done" =>
        /\ \A c \in 1..Len(fetch_days) : fetch_days[c].days = LookBack
        /\ \A m \in 1..Len(last_days_messages) : last_days_messages[m].days = LookBack

\* C26: every record get_permits returns has units_source 'field',
\* 'extracted' or 'zoning_multifamily', never 'unknown'; its numberofunits is
\* the multi-family sentinel exactly when the source is 'zoning_multifamily',
\* and otherwise a non-zero integer that is at least min_units.
C26_ReturnedUnitsAreKnownOrSentinel ==
    (kind = "permits" /\ pc = "returned") =>
        \A a \in 1..Len(returned) :
            /\ returned[a].units_source \in {"field", "extracted", "zoning_multifamily"}
            /\ returned[a].numberofunits = UnknownMultiFamily
                   <=> returned[a].units_source = "zoning_multifamily"
            /\ returned[a].units_source # "zoning_multifamily" =>
                   /\ returned[a].numberofunits.k = "int"
                   /\ returned[a].numberofunits.n # 0
                   /\ returned[a].numberofunits.n >= min_units

\* a record with a float field of 12 is returned with the integer 12
C26_Witness ==
    /\ kind = "permits" /\ pc = "returned" /\ min_units = 10
    /\ \E a \in 1..Len(returned) :
          /\ RawUnits(returned[a]) = PyFloat(12)
          /\ returned[a].units_source = "field"
          /\ returned[a].numberofunits = PyInt(12)

\* a sentinel record and an extracted count are returned together
C26_WitnessSources ==
    /\ kind = "permits" /\ pc = "returned"
    /\ \E a, b \in 1..Len(returned) :
          /\ returned[a].units_source = "zoning_multifamily"
          /\ returned[b].units_source = "extracted"

\* the position at which the identifier of r first occurs in the input
FirstOccurrence(input, r) == SetMin(Sharing(input, r))

\* C27: the output of the deduplication lists the surviving records in the
\* order in which their identifiers first occur in the input, whichever of the
\* duplicates survived for an identifier.
C27_OrderOfFirstOccurrence ==
    DedupDone =>
      \E input \in {DedupInput} : \E output \in {DedupOutput} :
        \A a, b \in 1..Len(output) :
           a < b => FirstOccurrence(input, output[a]) < FirstOccurrence(input, output[b])

\* the third record replaced the first, and still precedes the second
C27_Witness ==
    /\ DedupDone
    /\ \E input \in {DedupInput} : \E output \in {DedupOutput} :
          /\ Len(input) = 3
          /\ RecId(input[1]) = RecId(input[3])
          /\ RecId(input[1]) # RecId(input[2])
          /\ output = <<input[3], input[2]>>

\* C28: the deduplication completes without error for every input,
\* duplicates with an absent or a null timestamp included, and a record
\* without timestamp never survives a duplicate that has one.
C28_DedupNeverRaises ==
    /\ pc # "dedup_raised"
    /\ DedupDone =>
         \E input \in {DedupInput} : \E output \in {DedupOutput} :
            \A a \in 1..Len(output) :
               RecDate(output[a]) = <<>> =>
                  \A b \in Sharing(input, output[a]) : RecDate(input[b]) = <<>>

\* the extraction gave 0 or nothing
ZeroOrMiss(count) == count = PyInt(0) \/ count = PyNone

\* C29: an extracted count of 0 is a miss: when the first narrative gives 0
\* the second is consulted, and a permit without unit field whose narratives
\* give nothing but 0 is never marked 'extracted', never gets the count 0, and
\* is returned only as a multi-family zoning permit.
C29_ZeroIsAMiss ==
    \A idx \in Enriched :
       ~Truthy(RawUnits(permits[idx])) =>
          \E first \in {PrimaryCount(permits[idx])} :
          \E second \in {SecondaryCount(permits[idx])} :
             /\ first = PyInt(0) =>
                   CallFields(permits[idx].row) =
                       <<"approvedscopeofwork", "permitdescription">>
             /\ (ZeroOrMiss(first) /\ ZeroOrMiss(second)
                    /\ (first = PyInt(0) \/ second = PyInt(0))) =>
                   /\ permits[idx].units_source # "extracted"
                   /\ permits[idx].numberofunits \in
                          {RawUnits(permits[idx]), UnknownMultiFamily}
                   /\ pc = "returned" =>
                         \A a \in 1..Len(returned) :
                            returned[a] = permits[idx] =>
                               returned[a].units_source = "zoning_multifamily"

\* the first narrative says 0 units, the second 12: the count is 12
C29_Witness ==
    \E idx \in Enriched :
       /\ ~Truthy(RawUnits(permits[idx]))
       /\ PrimaryCount(permits[idx]) = PyInt(0)
       /\ permits[idx].permitdescription = DescTwelve
       /\ permits[idx].numberofunits = PyInt(12)
       /\ permits[idx].units_source = "extracted"

\* both narratives say 0: the permit is 'unknown' and is not returned
C29_WitnessOnlyZero ==
    /\ kind = "permits" /\ pc = "returned"
    /\ \E idx \in 1..Len(permits) :
          /\ PrimaryCount(permits[idx]) = PyInt(0)
          /\ SecondaryCount(permits[idx]) = PyInt(0)
          /\ permits[idx].units_source = "unknown"
          /\ returned = <<>>

\* send_filtered_daily_digests has returned
MailReturned == mail_pc = "done"
\* the neighborhood and district groups, as <<digest, entry>>
MailGroups ==
    {<<"neighborhood", groups.neighborhoods[n]>> :
        n \in 1..Len(groups.neighborhoods)}
    \cup {<<"district", groups.districts[n]>> : n \in 1..Len(groups.districts)}
\* the group's filtered permits or its filtered variances are not empty
HasActivity(g) ==
    IF g[1] = "neighborhood"
    THEN \/ filter_by_neighborhoods(mail_permits, Request(<<g[2].key>>)) # <<>>
         \/ filter_by_neighborhoods(mail_variances, Request(<<g[2].key>>)) # <<>>
    ELSE \/ filter_by_districts(mail_permits, Request(<<g[2].key>>)) # <<>>
         \/ filter_by_districts(mail_variances, Request(<<g[2].key>>)) # <<>>
\* the emails sent for a group, and those of them sent to one address
SentFor(g) ==
    {n \in 1..Len(sent) : sent[n].digest = g[1] /\ sent[n].area = g[2].key}
SentTo(g, email) == {n \in SentFor(g) : sent[n].recipients = <<email>>}
\* the addresses subscribed to a group
AddressesOf(g) == {g[2].emails[n] : n \in 1..Len(g[2].emails)}
\* the addresses in any group, the citywide one included
Grouped ==
    {groups.citywide[n] : n \in 1..Len(groups.citywide)}
    \cup UNION {AddressesOf(g) : g \in MailGroups}
\* the subscriber is inactive or not on daily frequency
NotDailyActive(subscriber) ==
    \/ subscriber.subscriber_type # PyStr(LitRegular)
    \/ subscriber.metadata.frequency # PyStr(LitDaily)
\* the sizes of the groups with activity among a dict's entries from n on
RECURSIVE ActiveSizes(_, _, _)
ActiveSizes(what, dict, n) ==
    IF n > Len(dict) THEN 0
    ELSE (IF HasActivity(<<what, dict[n]>>) THEN Len(dict[n].emails) ELSE 0)
         + ActiveSizes(what, dict, n + 1)

NoMailWithoutActivity ==
    \A g \in MailGroups : ~HasActivity(g) => SentFor(g) = {}
OneMailPerAddress ==
    \A g \in MailGroups : HasActivity(g) =>
        \A email \in AddressesOf(g) : Cardinality(SentTo(g, email)) = 1
SkippedInNoGroup ==
    \A n \in 1..Len(subscribers) :
        NotDailyActive(subscribers[n]) => subscribers[n].email \notin Grouped
CountAsStated ==
    mail_result = PyInt(Len(groups.citywide)
                        + ActiveSizes("neighborhood", groups.neighborhoods, 1)
                        + ActiveSizes("district", groups.districts, 1))
\* C30: when send_filtered_daily_digests returns, no email was sent for a
\* neighborhood or district group whose filtered permits and filtered
\* variances are both empty, every group with activity got exactly one email
\* per subscribed address, no inactive or non-daily subscriber is in a group,
\* and the count returned is the number of citywide subscribers plus the sizes
\* of the groups with activity.
C30_OneEmailPerAddressOfActiveGroups ==
    MailReturned =>
        /\ NoMailWithoutActivity
        /\ OneMailPerAddress
        /\ SkippedInNoGroup
        /\ CountAsStated

====
